---------------------------- MODULE Spec2Model ----------------------------
(***************************************************************************)
(* TaskHive swarm: the orchestrator's dispatch loop, the per-task pipeline *)
(* record, the advisory file lock and the retrying API client.             *)
(*                                                                         *)
(* The module holds several specifications over one set of variables:     *)
(*   SpecClient  TaskHiveClient._request_with_retry, one request           *)
(*   SpecLock    acquire_lock / release_lock, two processes, one workspace *)
(*   Spec        Coder, Tester and Deployer runs on one task workspace     *)
(*   SpecOrch    SwarmOrchestrator.run and _tick over the claimed tasks      *)
(*   SpecRun     run_sub_agent, one call on one worker's output              *)
(*   SpecHold    lock, dispatch and worker writes of two orchestrators       *)
(*   SpecProgress  write_progress of the Coder and the Deployer, one task    *)
(* Each specification moves its own variables and leaves the others alone. *)
(***************************************************************************)
EXTENDS Integers, Sequences, FiniteSets, TLC

VARIABLES
    \* ---- TaskHiveClient (scripts/agents/base_agent.py) ----
    cpc,         \* "idle" | "loop" | "done": position in _request_with_retry
    attempt,     \* the loop variable `attempt`
    http,        \* generation of self.http (a new one per _reconnect)
    last_error,  \* the local last_error ("none" for None)
    outcome,     \* what the call gave its caller: a return value or a raise
    resps,       \* the responses the attempts of this request received
    ctrace,      \* what the call did, in order: attempts, sleeps, reconnects
    \* ---- acquire_lock / release_lock (scripts/swarm.py), one workspace ----
    lockFile,    \* the workspace's .agent_lock: absent, unreadable or a record
    clock,       \* time.time(), in seconds
    lpc,         \* per process: "idle", or, between its check and its write, why it passed
    holding,     \* per process: its last acquire_lock returned True, no release since
    lastOp,      \* the lock operation step taken last, with what it saw and gave
    lhist,       \* per process: its own calls since another process last touched the file
    \* ---- stage workers on one task workspace (scripts/agents/*_agent.py) ----
    stateFile,   \* the workspace's .swarm_state.json: absent, unreadable or a record
    mem,         \* the running worker's in-memory `state` dict
    worker,      \* the worker process running on the task, or "none"
    wpc,         \* its position in process_task
    wstep,       \* the Coder's loop variable over the plan's steps
    result,      \* the action run_sub_agent got from the last run
    started,     \* the last run: which worker, what the state file held at its
                 \* start, what the Tester found or what the Deployer's
                 \* submission gave ("-" until then), and whether the run has
                 \* appended to progress.jsonl
    \* ---- SwarmOrchestrator (scripts/swarm.py) ----
    opc,         \* where the orchestrator process is in run/_tick/_check_work
    opid,        \* its process id (a new one after a restart)
    scan,        \* index of the claim _check_work is looking at
    locks,       \* per task: the workspace's .agent_lock
    otime,       \* time.time(), in seconds
    ostage,      \* per task: what .swarm_state.json gives when read
    cur,         \* the dispatch in progress and what its acquire_lock found
    battempt,    \* _wait_for_backend's loop variable `attempt` (0 before the loop)
    ticked,      \* this process has entered _tick
    nrev,        \* len(revision_tasks) of the present tick
    ndisp,       \* sub-agent processes started in the present tick, by kind
    leaked,      \* tasks whose lock file this process failed to unlink
    olast,       \* what the orchestrator step taken last did
    \* ---- run_sub_agent (scripts/swarm.py), one call ----
    rpc,         \* "idle" | "ran" | "done": before, in and after the call
    rout,        \* proc.stdout, line by line
    rexc,        \* what subprocess.run raised ("none" if it returned)
    rresult,     \* what run_sub_agent returned
    rends,       \* the caller's test at line 405: the tick ends on this result
    \* ---- a dispatch under the lock (scripts/swarm.py), one workspace ----
    hlock,       \* the workspace's .agent_lock
    hnow,        \* time.time(), in seconds
    hpc,         \* per orchestrator process: where it is in the dispatch
    hrec,        \* per process: the lock record its acquire_lock wrote
    hbegan,      \* per process: when subprocess.run started its worker
    hruns,       \* worker processes started so far
    hlast,       \* the step taken last, if a worker wrote the state record
    \* ---- write_progress (scripts/agents/*_agent.py), one task ----
    progress_file,   \* progress.jsonl: its records, by writer and index
    pstage,          \* the stage the task's state record gives
    pworker,         \* the worker process running on the task, or "none"
    progress_index   \* the Coder process's _progress_index.get(task_id, 0)

clientVars == <<cpc, attempt, http, last_error, outcome, resps, ctrace>>
lockVars == <<lockFile, clock, lpc, holding, lastOp, lhist>>

pipeVars == <<stateFile, mem, worker, wpc, wstep, result, started>>

orchVars ==
    <<opc, opid, scan, locks, otime, ostage, cur, battempt, ticked, nrev, ndisp,
      leaked, olast>>

runVars == <<rpc, rout, rexc, rresult, rends>>

holdVars == <<hlock, hnow, hpc, hrec, hbegan, hruns, hlast>>

progressVars == <<progress_file, pstage, pworker, progress_index>>

vars == <<clientVars, lockVars, pipeVars, orchVars, runVars, holdVars, progressVars>>
notClientVars == <<lockVars, pipeVars, orchVars, runVars, holdVars, progressVars>>
notLockVars == <<clientVars, pipeVars, orchVars, runVars, holdVars, progressVars>>
notPipeVars == <<clientVars, lockVars, orchVars, runVars, holdVars, progressVars>>
notOrchVars == <<clientVars, lockVars, pipeVars, runVars, holdVars, progressVars>>
notRunVars == <<clientVars, lockVars, pipeVars, orchVars, holdVars, progressVars>>
notHoldVars == <<clientVars, lockVars, pipeVars, orchVars, runVars, progressVars>>
notProgressVars == <<clientVars, lockVars, pipeVars, orchVars, runVars, holdVars>>

Min(a, b) == IF a < b THEN a ELSE b

(***************************************************************************)
(*                     TaskHiveClient._request_with_retry                  *)
(***************************************************************************)
MAX_RETRIES == 3
RETRY_DELAYS == <<1, 3, 5>>

\* Exceptions the HTTP call can raise.  The first three are members of
\* TRANSIENT_ERRORS; httpx.WriteTimeout is an httpx exception that is neither
\* in that tuple nor an OSError.
TRANSIENT_ERRORS == {"ConnectError", "ReadTimeout", "ConnectionResetError"}
OtherExceptions == {"WriteTimeout"}

Statuses == {200, 404, 503}
ContentTypes == {"application/json", "text/html"}
\* "json": a body that parses as JSON; "empty": nothing but white space;
\* "garbage": non-empty text that is not JSON.
Bodies == {"json", "empty", "garbage"}

ExcResponse(e) == [kind |-> "exc", err |-> e, status |-> 0, ctype |-> "-", body |-> "-"]
HttpResponse(s, c, b) == [kind |-> "http", err |-> "-", status |-> s, ctype |-> c, body |-> b]

Responses ==
    {ExcResponse(e) : e \in TRANSIENT_ERRORS \cup OtherExceptions}
    \cup {HttpResponse(s, c, b) : s \in Statuses, c \in ContentTypes, b \in Bodies}

Return(v) == [kind |-> "return", val |-> v]
Raise(e) == [kind |-> "raise", val |-> e]
NoOutcome == [kind |-> "none", val |-> "-"]

\* resp.json(): succeeds on a JSON body, raises (a ValueError) otherwise.
JsonParses(b) == b = "json"

IsTransient(r) == r.kind = "exc" /\ r.err \in TRANSIENT_ERRORS
IsServerError(r) == r.kind = "http" /\ r.status >= 500
IsClientError(r) == r.kind = "http" /\ r.status >= 400 /\ r.status < 500
Retryable(r) == IsTransient(r) \/ IsServerError(r)

\* `attempt < self.MAX_RETRIES - 1`: another attempt follows this one.
MayRetry_SleepAfterLast(a) == a < MAX_RETRIES
MayRetry(a) == a < MAX_RETRIES - 1

\* self.RETRY_DELAYS[min(attempt, len(self.RETRY_DELAYS) - 1)] (0-based)
RetryDelay(a) == RETRY_DELAYS[Min(a, Len(RETRY_DELAYS) - 1) + 1]

EvAttempt(c) == [ev |-> "attempt", n |-> c]
EvSleep(d) == [ev |-> "sleep", n |-> d]
EvReconnect(c) == [ev |-> "reconnect", n |-> c]

\* The name of the structured error of the `except httpx.HTTPStatusError` arm.
HttpCode(s) == IF s = 503 THEN "http_503" ELSE IF s = 404 THEN "http_404" ELSE "http_200"

\* Lines 381-400: what the try body does with a response that came back.
\* A status >= 500 is turned into an HTTPStatusError.
TryBody(r) ==
    IF r.status >= 500 THEN Raise("HTTPStatusError")
    ELSE IF r.ctype # "application/json"
         THEN IF r.body = "empty" THEN Return("empty_response")
              ELSE IF JsonParses(r.body) THEN Return("body") ELSE Return("non_json")
         ELSE IF JsonParses(r.body) THEN Return("body") ELSE Raise("JSONDecodeError")

ClientInit ==
    /\ cpc = "idle"
    /\ attempt = 0
    /\ http = 0
    /\ last_error = "none"
    /\ outcome = NoOutcome
    /\ resps = <<>>
    /\ ctrace = <<>>

\* get()/post(): enter _request_with_retry.
StartRequest ==
    /\ cpc = "idle"
    /\ cpc' = "loop"
    /\ attempt' = 0
    /\ last_error' = "none"
    /\ UNCHANGED <<http, outcome, resps, ctrace>>
    /\ UNCHANGED notClientVars

\* The loop ran out: `raise last_error or RuntimeError(...)`.
Exhausted(err) == Raise(IF err = "none" THEN "RuntimeError" ELSE err)

\* One iteration of `for attempt in range(self.MAX_RETRIES)` receiving r,
\* with what follows the loop when this iteration ends it.
Attempt(r) ==
    /\ cpc = "loop"
    /\ attempt < MAX_RETRIES
    /\ UNCHANGED notClientVars
    /\ resps' = Append(resps, r)
    /\ LET sent == Append(ctrace, EvAttempt(http))
           res == IF r.kind = "exc" THEN Raise(r.err) ELSE TryBody(r)
       IN
       IF res.kind = "return"
       THEN \* lines 393-400
            /\ outcome' = res
            /\ cpc' = "done"
            /\ ctrace' = sent
            /\ UNCHANGED <<attempt, http, last_error>>
       ELSE IF res.val \in TRANSIENT_ERRORS
       THEN \* lines 402-408
            /\ last_error' = res.val
            /\ IF MayRetry(attempt)
               THEN /\ ctrace' = sent \o <<EvSleep(RetryDelay(attempt)), EvReconnect(http + 1)>>
                    /\ http' = http + 1
               ELSE /\ ctrace' = sent
                    /\ http' = http
            /\ attempt' = attempt + 1
            /\ IF attempt + 1 < MAX_RETRIES
               THEN /\ cpc' = "loop"
                    /\ outcome' = outcome
               ELSE /\ cpc' = "done"
                    /\ outcome' = Exhausted(res.val)
       ELSE IF res.val = "HTTPStatusError"
       THEN \* lines 410-420
            /\ last_error' = res.val
            /\ http' = http
            /\ IF MayRetry(attempt) /\ r.status >= 500
               THEN /\ ctrace' = Append(sent, EvSleep(RetryDelay(attempt)))
                    /\ attempt' = attempt + 1
                    /\ cpc' = "loop"
                    /\ outcome' = outcome
               ELSE /\ ctrace' = sent
                    /\ attempt' = attempt
                    /\ cpc' = "done"
                    /\ outcome' = IF JsonParses(r.body) THEN Return("body")
                                  ELSE Return(HttpCode(r.status))
       ELSE \* lines 422-427: any other exception breaks out of the loop
            /\ last_error' = res.val
            /\ outcome' = Exhausted(res.val)
            /\ cpc' = "done"
            /\ ctrace' = sent
            /\ UNCHANGED <<attempt, http>>

ClientNext ==
    \/ StartRequest
    \/ \E r \in Responses : Attempt(r)

(***************************************************************************)
(*                       acquire_lock / release_lock                       *)
(***************************************************************************)
LOCK_TIMEOUT == 300

NoFile == [kind |-> "none", agent |-> "-", pid |-> 0, timestamp |-> 0]
\* A file whose text json.loads rejects (a write cut short by a kill).
Corrupt == [kind |-> "corrupt", agent |-> "-", pid |-> 0, timestamp |-> 0]
\* json.dumps({"agent": agent_name, "pid": os.getpid(), "timestamp": time.time()})
NewLock(name, pid, now) == [kind |-> "rec", agent |-> name, pid |-> pid, timestamp |-> now]

\* Lines 75-89: TRUE iff acquire_lock returns False.  The file exists, its
\* text is read and parsed without an exception, and the record is younger
\* than LOCK_TIMEOUT.  An exception while reading or parsing is swallowed
\* (`except Exception: pass`) and the function goes on to write.
LockBlocks_Reentrant(f, name, now, readFault) ==
    /\ f.kind = "rec"
    /\ ~readFault
    /\ now - f.timestamp < LOCK_TIMEOUT
    /\ f.agent # name
LockBlocks(f, name, now, readFault) ==
    /\ f.kind # "none"
    /\ ~readFault
    /\ f.kind = "rec"
    /\ now - f.timestamp < LOCK_TIMEOUT

\* Lines 91-95: what the file holds after the write_text of a process that
\* passed the check.  The write looks at nothing: not at the file as it is now.
LockWritten_IfStillFree(f, name, pid, now) ==
    IF LockBlocks(f, name, now, FALSE) THEN f ELSE NewLock(name, pid, now)
LockWritten(f, name, pid, now) == NewLock(name, pid, now)

\* Lines 98-105: the file after release_lock.  unlink is tried whenever the
\* file exists, whoever wrote it; an exception from unlink is swallowed.
Released_KeepsFile(f, pid, unlinkFault) == f
Released_OwnOnly(f, pid, unlinkFault) ==
    IF f.kind = "rec" /\ f.pid = pid /\ ~unlinkFault THEN NoFile ELSE f
Released(f, pid, unlinkFault) ==
    IF f.kind # "none" /\ ~unlinkFault THEN NoFile ELSE f

\* The whole of acquire_lock as one process runs it undisturbed.
AcquireLock(f, name, pid, now, readFault, writeFault) ==
    IF LockBlocks(f, name, now, readFault) THEN [ret |-> "False", file |-> f]
    ELSE IF writeFault THEN [ret |-> "raise", file |-> f]
    ELSE [ret |-> "True", file |-> LockWritten(f, name, pid, now)]

Procs == {1, 2}
AgentOf(p) == IF p = 1 THEN "Coder" ELSE "Tester"
MaxClock == 402
ElapseSteps == {100, 101, 199}
\* The lock step taken last.  before: the file as the step found it; the
\* step was taken at the present value of clock (Elapse clears lastOp).
\* why: for a write, how its check was passed (see lpc).
NoOp == [p |-> 0, op |-> "none", fault |-> FALSE, before |-> NoFile, ret |-> "-", why |-> "-"]
Op(p, op, fault, before, ret, why) ==
    [p |-> p, op |-> op, fault |-> fault, before |-> before, ret |-> ret, why |-> why]

\* Why a check that did not return False went on to the write: the file was
\* absent, the record was stale, or reading it raised (swallowed).
PassReason(f, readFault) ==
    IF f.kind = "none" THEN "absent"
    ELSE IF readFault \/ f.kind = "corrupt" THEN "unreadable"
    ELSE "stale"

\* lhist[p] follows p through acquire; release; acquire:
\*   n     calls of the sequence completed so far (0..3)
\*   r1,r2 what the first and the second acquire_lock returned
\*   free  the first acquire_lock found no unexpired record
\*   fast  no time has passed since the first call began
\* The sequence starts anew when another process touches the file or a call
\* meets an I/O fault.
NoSeq == [n |-> 0, r1 |-> "-", r2 |-> "-", free |-> FALSE, fast |-> FALSE]
AfterAcquire(h, ret, free) ==
    IF h.n = 2 THEN [h EXCEPT !.n = 3, !.r2 = ret]
    ELSE [n |-> 1, r1 |-> ret, r2 |-> "-", free |-> free, fast |-> TRUE]
AfterRelease(h) == IF h.n = 1 THEN [h EXCEPT !.n = 2] ELSE NoSeq

LockInit ==
    /\ lockFile = NoFile
    /\ clock = 0
    /\ lpc = [p \in Procs |-> "idle"]
    /\ holding = [p \in Procs |-> FALSE]
    /\ lastOp = NoOp
    /\ lhist = [p \in Procs |-> NoSeq]

\* acquire_lock, lines 74-89: the existence test, the read and the age test.
AcquireCheck(p, readFault) ==
    /\ UNCHANGED notLockVars
    /\ lpc[p] = "idle"
    /\ IF LockBlocks(lockFile, AgentOf(p), clock, readFault)
       THEN /\ lastOp' = Op(p, "check", readFault, lockFile, "False", "-")
            /\ holding' = [holding EXCEPT ![p] = FALSE]
            /\ lhist' = [lhist EXCEPT ![p] = AfterAcquire(@, "False", FALSE)]
            /\ UNCHANGED lpc
       ELSE /\ lastOp' = Op(p, "check", readFault /\ lockFile.kind # "none", lockFile, "pass", "-")
            /\ lpc' = [lpc EXCEPT ![p] = PassReason(lockFile, readFault)]
            /\ lhist' = [lhist EXCEPT ![p] = IF PassReason(lockFile, readFault) = "unreadable" THEN NoSeq ELSE @]
            /\ UNCHANGED holding
    /\ UNCHANGED <<lockFile, clock>>

\* acquire_lock, lines 91-95: the write and `return True`; an exception from
\* write_text leaves acquire_lock.
AcquireWrite(p, writeFault) ==
    /\ UNCHANGED notLockVars
    /\ lpc[p] # "idle"
    /\ lpc' = [lpc EXCEPT ![p] = "idle"]
    /\ IF writeFault
       THEN /\ lastOp' = Op(p, "write", TRUE, lockFile, "raise", lpc[p])
            /\ holding' = [holding EXCEPT ![p] = FALSE]
            /\ lhist' = [lhist EXCEPT ![p] = NoSeq]
            /\ UNCHANGED lockFile
       ELSE LET f == LockWritten(lockFile, AgentOf(p), p, clock)
                ret == IF f = NewLock(AgentOf(p), p, clock) THEN "True" ELSE "False"
            IN /\ lockFile' = f
               /\ lastOp' = Op(p, "write", FALSE, lockFile, ret, lpc[p])
               /\ holding' = [holding EXCEPT ![p] = (ret = "True")]
               /\ lhist' = [q \in Procs |->
                              IF q = p THEN (IF lpc[p] = "unreadable" THEN NoSeq
                                             ELSE AfterAcquire(lhist[q], ret, TRUE))
                              ELSE IF f # lockFile THEN NoSeq ELSE lhist[q]]
    /\ UNCHANGED clock

\* The process is killed inside write_text: the file was truncated by the
\* open and the record never arrived.  A new process takes its place.
KillInWrite(p) ==
    /\ UNCHANGED notLockVars
    /\ lpc[p] # "idle"
    /\ lpc' = [lpc EXCEPT ![p] = "idle"]
    /\ lockFile' = Corrupt
    /\ holding' = [holding EXCEPT ![p] = FALSE]
    /\ lastOp' = Op(p, "kill", FALSE, lockFile, "-", lpc[p])
    /\ lhist' = [q \in Procs |-> NoSeq]
    /\ UNCHANGED clock

\* release_lock, lines 98-105.
ReleaseLock(p, unlinkFault) ==
    /\ UNCHANGED notLockVars
    /\ lpc[p] = "idle"
    /\ lockFile' = Released(lockFile, p, unlinkFault)
    /\ holding' = [holding EXCEPT ![p] = FALSE]
    /\ lastOp' = Op(p, "release", unlinkFault /\ lockFile.kind # "none", lockFile, "None", "-")
    /\ lhist' = [q \in Procs |->
                   IF q = p THEN (IF unlinkFault /\ lockFile.kind # "none" THEN NoSeq
                                  ELSE AfterRelease(lhist[q]))
                   ELSE IF lockFile' # lockFile THEN NoSeq ELSE lhist[q]]
    /\ UNCHANGED <<clock, lpc>>

Elapse(d) ==
    /\ UNCHANGED notLockVars
    /\ clock + d <= MaxClock
    /\ clock' = clock + d
    /\ lastOp' = NoOp
    /\ lhist' = [q \in Procs |-> [lhist[q] EXCEPT !.fast = FALSE]]
    /\ UNCHANGED <<lockFile, lpc, holding>>


LockNext ==
    \/ \E p \in Procs, fault \in BOOLEAN : AcquireCheck(p, fault)
    \/ \E p \in Procs, fault \in BOOLEAN : AcquireWrite(p, fault)
    \/ \E p \in Procs : KillInWrite(p)
    \/ \E p \in Procs, fault \in BOOLEAN : ReleaseLock(p, fault)
    \/ \E d \in ElapseSteps : Elapse(d)

(***************************************************************************)
(*        Coder, Tester and Deployer runs on one task workspace            *)
(*        (scripts/agents/coder_agent.py, tester_agent.py, deploy_agent.py)*)
(***************************************************************************)
Stages == {"coding", "testing", "deploying", "delivered"}
Workers == {"Coder", "Tester", "Deployer"}

MaxSteps == 2      \* most steps a plan has
MaxIter == 2       \* most Coder runs that finish
MaxCommits == 2    \* most entries of commit_log

\* The content of .swarm_state.json.  plan = 0 stands for no "plan" key,
\* otherwise the number of its steps; test_errors and test_command say whether
\* the value is a non-empty string; commit_log is the number of entries;
\* files is the number of steps whose files were added to the "files" list.
NoState ==
    [kind |-> "none", status |-> "-", plan |-> 0, scaffold_command |-> FALSE,
     scaffolded |-> FALSE, test_command |-> FALSE, completed_steps |-> {},
     files |-> 0, iterations |-> 0, test_errors |-> FALSE, commit_log |-> 0]
\* A file that exists and does not parse (what open(.., "w") followed by an
\* unfinished json.dump leaves behind).
CorruptState == [NoState EXCEPT !.kind = "corrupt"]
\* The Coder's initial state dict.
DefaultState == [NoState EXCEPT !.kind = "rec", !.status = "coding", !.test_command = TRUE]

\* The stage as SwarmOrchestrator._check_work reads it.
PersistedStage(f) == IF f.kind = "rec" THEN f.status ELSE "coding"

\* json.load of the state file: the dict, or an exception.
Loads(f) == f.kind = "rec"

\* What _save_state / json.dump(state, f) leaves in the file.
SaveState(m) == m

\* git_ops.append_commit_log: re-reads the file, appends, writes it back.
AppendCommitLog(f) == IF Loads(f) THEN [f EXCEPT !.commit_log = @ + 1] ELSE f

\* commit_step gives a hash or None.
CommitHashes(f) == IF Loads(f) /\ f.commit_log >= MaxCommits THEN {FALSE} ELSE BOOLEAN

\* The positions of a worker whose next step writes the state file.
WritePcs ==
    {"c_plan_log", "c_scaffold_save", "c_step_log", "c_step_save", "c_finish",
     "t_skip_save", "t_bfail_save", "t_bfail_log", "t_log", "t_save",
     "d_log", "d_save"}

PipeInit ==
    /\ stateFile = NoState
    /\ mem = NoState
    /\ worker = "none"
    /\ wpc = "-"
    /\ wstep = 0
    /\ result = "-"
    /\ started = [agent |-> "-", file |-> NoState, verdict |-> "-", progress |-> FALSE]

\* The worker process ends and prints its result.
Finish(action) ==
    /\ worker' = "none"
    /\ wpc' = "-"
    /\ wstep' = 0
    /\ mem' = NoState
    /\ result' = action

Goto(pc) == wpc' = pc /\ UNCHANGED <<worker, result>>

\* The positions after a worker's last write, before its process has ended,
\* with the action it is about to print.
ReturnPcs == {"c_ret", "t_ret", "d_ret"}
ActionAt(pc) ==
    CASE pc = "c_ret" -> "coded" [] pc = "t_ret" -> "tested" [] OTHER -> "deployed"

\* run_sub_agent starts a worker script on the task.
StartWorker(w) ==
    /\ worker = "none"
    /\ (w = "Coder" /\ PersistedStage(stateFile) = "coding" /\ Loads(stateFile))
           => stateFile.iterations < MaxIter
    /\ worker' = w
    /\ wpc' = CASE w = "Coder" -> "c_load" [] w = "Tester" -> "t_load" [] OTHER -> "d_load"
    /\ mem' = NoState
    /\ wstep' = 0
    /\ result' = "-"
    /\ started' = [agent |-> w, file |-> stateFile, verdict |-> "-", progress |-> FALSE]
    /\ UNCHANGED stateFile
    /\ UNCHANGED notPipeVars

\* The worker's test of state.get("status") after the load (coder 329,
\* tester 59, deploy 174): the stage is the worker's own.
OwnStage_Any(w, status) == TRUE
OwnStage(w, status) ==
    status = CASE w = "Coder" -> "coding" [] w = "Tester" -> "testing" [] OTHER -> "deploying"

\* ---- Coder -------------------------------------------------------------
CoderLoad ==
    /\ worker = "Coder" /\ wpc = "c_load"
    /\ UNCHANGED stateFile
    /\ IF stateFile.kind = "corrupt"
       THEN Finish("error")
       ELSE LET state == IF stateFile.kind = "none" THEN DefaultState ELSE stateFile
            IN  IF ~OwnStage("Coder", state.status)
                THEN Finish("no_result")
                ELSE mem' = state /\ wstep' = 1 /\ Goto("c_plan")
    /\ UNCHANGED started
    /\ UNCHANGED notPipeVars

CoderPlan ==
    /\ worker = "Coder" /\ wpc = "c_plan"
    /\ IF mem.plan = 0
       THEN \E n \in 1..MaxSteps, sc \in BOOLEAN, tc \in BOOLEAN :
              /\ mem' = [mem EXCEPT !.plan = n, !.scaffold_command = sc, !.test_command = tc]
              /\ stateFile' = SaveState(mem')
              /\ Goto("c_plan_log")
       ELSE /\ UNCHANGED <<mem, stateFile>>
            /\ Goto("c_scaffold")
    /\ UNCHANGED wstep
    /\ started' = [started EXCEPT !.progress = TRUE]
    /\ UNCHANGED notPipeVars

CoderPlanLog ==
    /\ worker = "Coder" /\ wpc = "c_plan_log"
    /\ \E h \in CommitHashes(stateFile) :
          stateFile' = IF h THEN AppendCommitLog(stateFile) ELSE stateFile
    /\ Goto("c_scaffold")
    /\ UNCHANGED <<mem, wstep>>
    /\ UNCHANGED started
    /\ UNCHANGED notPipeVars

CoderScaffold ==
    /\ worker = "Coder" /\ wpc = "c_scaffold"
    /\ IF mem.scaffold_command /\ ~mem.scaffolded
       THEN /\ \E rc0 \in BOOLEAN, h \in CommitHashes(stateFile) :
                 stateFile' = IF rc0 /\ h THEN AppendCommitLog(stateFile) ELSE stateFile
            /\ Goto("c_scaffold_save")
       ELSE /\ UNCHANGED stateFile
            /\ Goto("c_step")
    /\ UNCHANGED <<mem, wstep>>
    /\ UNCHANGED started
    /\ UNCHANGED notPipeVars

CoderScaffoldSave ==
    /\ worker = "Coder" /\ wpc = "c_scaffold_save"
    /\ mem' = [mem EXCEPT !.scaffolded = TRUE]
    /\ stateFile' = SaveState(mem')
    /\ Goto("c_step")
    /\ UNCHANGED wstep
    /\ UNCHANGED started
    /\ UNCHANGED notPipeVars

\* Lines 440 and 450-452: the step is in completed_step_nums.
AlreadyDone_Never(step_num, state) == FALSE
AlreadyDone(step_num, state) == step_num \in state.completed_steps

\* One pass of `for step in steps` up to the commit.
CoderStep ==
    /\ worker = "Coder" /\ wpc = "c_step"
    /\ IF wstep > mem.plan
       THEN Goto("c_finish") /\ UNCHANGED wstep
       ELSE IF AlreadyDone(wstep, mem)
       THEN Goto("c_step") /\ wstep' = wstep + 1
       ELSE \E files \in BOOLEAN :
              IF files
              THEN Goto("c_step_log") /\ UNCHANGED wstep
              ELSE Goto("c_step") /\ wstep' = wstep + 1
    /\ UNCHANGED <<mem, stateFile>>
    /\ UNCHANGED started
    /\ UNCHANGED notPipeVars

CoderStepLog ==
    /\ worker = "Coder" /\ wpc = "c_step_log"
    /\ \E h \in CommitHashes(stateFile) :
          stateFile' = IF h THEN AppendCommitLog(stateFile) ELSE stateFile
    /\ Goto("c_step_save")
    /\ UNCHANGED <<mem, wstep>>
    /\ UNCHANGED started
    /\ UNCHANGED notPipeVars

CoderStepSave ==
    /\ worker = "Coder" /\ wpc = "c_step_save"
    /\ mem' = [mem EXCEPT !.completed_steps = @ \cup {wstep}, !.files = @ + 1]
    /\ stateFile' = SaveState(mem')
    /\ wstep' = wstep + 1
    /\ Goto("c_step")
    /\ UNCHANGED started
    /\ UNCHANGED notPipeVars

\* Lines 549-550: the state dict at the end of the run.
Finished_KeepsIterations(m) == [m EXCEPT !.status = "testing"]
Finished(m) == [m EXCEPT !.status = "testing", !.iterations = @ + 1]

CoderFinish ==
    /\ worker = "Coder" /\ wpc = "c_finish"
    /\ mem' = Finished(mem)
    /\ stateFile' = SaveState(mem')
    /\ Goto("c_ret")
    /\ UNCHANGED wstep
    /\ UNCHANGED started
    /\ UNCHANGED notPipeVars

\* ---- Tester ------------------------------------------------------------
TesterLoad ==
    /\ worker = "Tester" /\ wpc = "t_load"
    /\ UNCHANGED stateFile
    /\ IF ~Loads(stateFile)
       THEN Finish("error")
       ELSE IF ~OwnStage("Tester", stateFile.status)
       THEN Finish("no_result")
       ELSE /\ mem' = stateFile
            /\ UNCHANGED wstep
            /\ IF ~stateFile.test_command THEN Goto("t_skip_save") ELSE Goto("t_build")
    /\ UNCHANGED started
    /\ UNCHANGED notPipeVars

\* No test command: assume success.
TesterSkipSave ==
    /\ worker = "Tester" /\ wpc = "t_skip_save"
    /\ mem' = [mem EXCEPT !.status = "deploying"]
    /\ stateFile' = SaveState(mem')
    /\ Goto("t_ret")
    /\ UNCHANGED wstep
    /\ UNCHANGED started
    /\ UNCHANGED notPipeVars

\* Lines 114-118 and 174-175: the state dict after a failed build or test
\* run; lines 161-162: after a passed test run.
Failed_NoErrors(m) == [m EXCEPT !.status = "coding"]
Failed_GivesUpAtCap(m) ==
    [m EXCEPT !.status = IF m.iterations >= MaxIter THEN "failed" ELSE "coding",
              !.test_errors = TRUE]
Failed(m) == [m EXCEPT !.status = "coding", !.test_errors = TRUE]
Passed_KeepsErrors(m) == [m EXCEPT !.status = "deploying"]
Passed(m) == [m EXCEPT !.status = "deploying", !.test_errors = FALSE]

\* Build verification of a site project.
TesterBuild ==
    /\ worker = "Tester" /\ wpc = "t_build"
    /\ \E site \in BOOLEAN, build_rc0 \in BOOLEAN :
          IF site /\ ~build_rc0
          THEN Goto("t_bfail_save") /\ started' = [started EXCEPT !.verdict = "build_failed"]
          ELSE Goto("t_run") /\ UNCHANGED started
    /\ UNCHANGED <<mem, wstep, stateFile>>
    /\ UNCHANGED notPipeVars

TesterBuildFailSave ==
    /\ worker = "Tester" /\ wpc = "t_bfail_save"
    /\ mem' = Failed(mem)
    /\ stateFile' = SaveState(mem')
    /\ Goto("t_bfail_log")
    /\ UNCHANGED wstep
    /\ UNCHANGED started
    /\ UNCHANGED notPipeVars

TesterBuildFailLog ==
    /\ worker = "Tester" /\ wpc = "t_bfail_log"
    /\ \E h \in CommitHashes(stateFile) :
          stateFile' = IF h THEN AppendCommitLog(stateFile) ELSE stateFile
    /\ Goto("t_ret")
    /\ UNCHANGED <<mem, wstep>>
    /\ UNCHANGED started
    /\ UNCHANGED notPipeVars

\* run_tests and the in-memory verdict.
TesterRun ==
    /\ worker = "Tester" /\ wpc = "t_run"
    /\ \E rc0 \in BOOLEAN :
          /\ mem' = IF rc0 THEN Passed(mem) ELSE Failed(mem)
          /\ started' = [started EXCEPT !.verdict = IF rc0 THEN "passed" ELSE "failed"]
    /\ Goto("t_log")
    /\ UNCHANGED <<wstep, stateFile>>
    /\ UNCHANGED notPipeVars

TesterLog ==
    /\ worker = "Tester" /\ wpc = "t_log"
    /\ \E h \in CommitHashes(stateFile) :
          stateFile' = IF h THEN AppendCommitLog(stateFile) ELSE stateFile
    /\ Goto("t_save")
    /\ UNCHANGED <<mem, wstep>>
    /\ UNCHANGED started
    /\ UNCHANGED notPipeVars

TesterSave ==
    /\ worker = "Tester" /\ wpc = "t_save"
    /\ stateFile' = SaveState(mem)
    /\ Goto("t_ret")
    /\ UNCHANGED <<mem, wstep>>
    /\ UNCHANGED started
    /\ UNCHANGED notPipeVars

\* ---- Deployer ----------------------------------------------------------
DeployerLoad ==
    /\ worker = "Deployer" /\ wpc = "d_load"
    /\ UNCHANGED stateFile
    /\ IF ~Loads(stateFile)
       THEN Finish("error")
       ELSE IF ~OwnStage("Deployer", stateFile.status)
       THEN Finish("no_result")
       ELSE mem' = stateFile /\ UNCHANGED wstep /\ Goto("d_log")
    /\ UNCHANGED started
    /\ UNCHANGED notPipeVars

\* The first write_progress (line 183), deploy, smoke test, commit of the
\* deploy results.
DeployerLog ==
    /\ worker = "Deployer" /\ wpc = "d_log"
    /\ \E h \in CommitHashes(stateFile) :
          stateFile' = IF h THEN AppendCommitLog(stateFile) ELSE stateFile
    /\ Goto("d_submit")
    /\ UNCHANGED <<mem, wstep>>
    /\ started' = [started EXCEPT !.progress = TRUE]
    /\ UNCHANGED notPipeVars

\* client.submit_deliverable (lines 334-342).  What the call gives: the API
\* accepted the deliverable ("ok"), answered ok:false because one was already
\* submitted ("already") or for another reason ("not_ok"), or the call raised,
\* with a text that says already submitted or 409 ("raise_409") or another.
SubmitOutcomes == {"ok", "already", "not_ok", "raise_409", "raise_other"}
\* The Deployer goes on to mark the task delivered: the return value is not
\* looked at, an exception is let through unless its text says 409.
GoesOnToDeliver(s) == s # "raise_other"
DeployerSubmit ==
    /\ worker = "Deployer" /\ wpc = "d_submit"
    /\ \E s \in SubmitOutcomes :
          /\ started' = [started EXCEPT !.verdict = s]
          /\ IF GoesOnToDeliver(s)
             THEN Goto("d_save") /\ UNCHANGED <<mem, wstep>>
             ELSE Finish("error")
    /\ UNCHANGED stateFile
    /\ UNCHANGED notPipeVars

DeployerSave ==
    /\ worker = "Deployer" /\ wpc = "d_save"
    /\ mem' = [mem EXCEPT !.status = "delivered"]
    /\ stateFile' = SaveState(mem')
    /\ Goto("d_ret")
    /\ UNCHANGED wstep
    /\ UNCHANGED started
    /\ UNCHANGED notPipeVars

\* ---- the end of a run -----------------------------------------------------
\* process_task returns, the result line is printed, the process ends.
WorkerReturn ==
    /\ worker # "none" /\ wpc \in ReturnPcs
    /\ Finish(ActionAt(wpc))
    /\ UNCHANGED <<stateFile, started>>
    /\ UNCHANGED notPipeVars

\* An exception inside process_task's try: the worker returns action error.
WorkerError ==
    /\ worker # "none"
    /\ wpc \notin {"c_load", "t_load", "d_load"} \cup ReturnPcs
    /\ Finish("error")
    /\ UNCHANGED stateFile
    /\ UNCHANGED started
    /\ UNCHANGED notPipeVars

\* run_sub_agent's timeout kills the worker process.  A worker killed inside
\* a write of the state file (after open(.., "w") truncated it, before the
\* dump is flushed) leaves a file that does not parse.
KillWorker(tear) ==
    /\ worker # "none"
    /\ tear => wpc \in WritePcs
    /\ stateFile' = IF tear THEN CorruptState ELSE stateFile
    /\ Finish("timeout")
    /\ UNCHANGED started
    /\ UNCHANGED notPipeVars

PipeNext ==
    \/ \E w \in Workers : StartWorker(w)
    \/ CoderLoad \/ CoderPlan \/ CoderPlanLog \/ CoderScaffold \/ CoderScaffoldSave
    \/ CoderStep \/ CoderStepLog \/ CoderStepSave \/ CoderFinish
    \/ TesterLoad \/ TesterSkipSave \/ TesterBuild \/ TesterBuildFailSave
    \/ TesterBuildFailLog \/ TesterRun \/ TesterLog \/ TesterSave
    \/ DeployerLoad \/ DeployerLog \/ DeployerSubmit \/ DeployerSave
    \/ WorkerReturn \/ WorkerError
    \/ \E tear \in BOOLEAN : KillWorker(tear)

(***************************************************************************)
(*        SwarmOrchestrator.run / _tick / _check_work (scripts/swarm.py)   *)
(***************************************************************************)
\* get_my_claims("accepted"): the task ids of the accepted claims, in the
\* order of the remote listing.
Listing == <<1, 2>>
Tasks == {Listing[i] : i \in 1..Len(Listing)}
MaxTime == 450       \* the clock stops here
MaxRestarts == 1     \* orchestrator processes started after the first
Intervals == {150}         \* time.sleep(self.interval)
RunTimes == {0, 300}       \* how long a worker run takes (timeout = 300)

\* What the orchestrator finds in a task's .swarm_state.json.
StageReadings == {"none", "corrupt"} \cup Stages
Reading(f) == IF f.kind = "rec" THEN f.status ELSE f.kind

\* Lines 364-371: "coding" unless the file exists, parses and says otherwise.
PipelineStage(r) == IF r \in {"none", "corrupt"} THEN "coding" ELSE r

AgentFor_DeliveredRedeploys(stage) ==
    CASE stage = "coding" -> "Coder"
      [] stage = "testing" -> "Tester"
      [] OTHER -> "Deployer"
\* Lines 374-385.
AgentFor(stage) ==
    CASE stage = "coding" -> "Coder"
      [] stage = "testing" -> "Tester"
      [] stage = "deploying" -> "Deployer"
      [] OTHER -> "-"

\* What a run of the stage's worker can hand back and leave in the state
\* file: the result action with the reading the file gives afterwards.
Outcome(a, r) == [action |-> a, stage |-> r]
RunOutcomes(agent, r) ==
    {Outcome("no_result", r), Outcome("error", r), Outcome("timeout", r)} \cup
    CASE agent = "Coder" /\ r = "corrupt" -> {}
      [] agent = "Coder" ->
            {Outcome("coded", "testing"), Outcome("error", "coding"),
             Outcome("timeout", "coding"), Outcome("timeout", "corrupt"),
             Outcome("timeout", "testing")}
      [] agent = "Tester" ->
            {Outcome("tested", "deploying"), Outcome("tested", "coding"),
             Outcome("error", "coding"), Outcome("timeout", "coding"),
             Outcome("timeout", "deploying"), Outcome("timeout", "corrupt")}
      [] OTHER ->
            {Outcome("deployed", "delivered"), Outcome("timeout", "delivered"),
             Outcome("timeout", "corrupt")}

\* The dispatch the orchestrator is in: the task, the agent, what the state
\* file gave, and what its acquire_lock found in the lock file, when, and
\* whether reading it raised.
NoDispatch ==
    [task |-> 0, agent |-> "-", found |-> NoFile, at |-> 0, readFault |-> FALSE,
     reading |-> "-"]

\* _wait_for_backend(max_retries=20, wait=5).
max_retries == 20
\* SwarmOrchestrator(max_active=10).
max_active == 10
\* revision_tasks: how many of the agent's tasks the listing gives as
\* in_progress, when it gives any.
MaxInProgress == 2
\* active_count as _check_scout can find it.
ActiveCounts == {9, 10}

\* What the step taken last did (cleared by every other step).
NoEvent ==
    [ev |-> "none", task |-> 0, reading |-> "-", done |-> FALSE, before |-> NoFile,
     ret |-> "-", n |-> 0]
Event(ev, task, reading, done, before, ret, n) ==
    [ev |-> ev, task |-> task, reading |-> reading, done |-> done, before |-> before,
     ret |-> ret, n |-> n]

\* The sub-agent processes started in the present tick, by kind.
NoneDispatched == [rev |-> 0, stage |-> 0, scout |-> 0]

\* Line 405: the scan of _check_work goes on after these results.
ContinuesScan_Always(action) == TRUE
ContinuesScan_AlsoAfterTimeout(action) == action \in {"error", "no_result", "timeout"}
ContinuesScan(action) == action \in {"error", "no_result"}

\* _wait_for_backend gives up after this many failed attempts.
StartupExhausted_OneMore(n) == n > max_retries
StartupExhausted(n) == n >= max_retries

OrchInit ==
    /\ opc = "startup"
    /\ opid = 1
    /\ battempt = 0
    /\ ticked = FALSE
    /\ scan = 0
    /\ nrev = 0
    /\ ndisp = NoneDispatched
    /\ locks = [t \in Tasks |-> NoFile]
    /\ leaked = {}
    /\ otime = 0
    /\ ostage = [t \in Tasks |-> "none"]
    /\ cur = NoDispatch
    /\ olast = NoEvent

\* _wait_for_backend, lines 236-253: one pass of the loop with its sleep;
\* after the last failed attempt, sys.exit(1).  The loop variable is gone
\* once the function has returned.
WaitForBackend ==
    /\ opc = "startup"
    /\ \E r \in {"profile", "rejected", "unreachable"} :
          /\ battempt' = IF r = "profile" THEN 0 ELSE battempt + 1
          /\ opc' = IF r = "profile" THEN "idle"
                    ELSE IF StartupExhausted(battempt + 1) THEN "exited"
                    ELSE "startup"
          /\ olast' = NoEvent
    /\ UNCHANGED <<opid, ticked, scan, nrev, ndisp, locks, leaked, otime, ostage, cur>>
    /\ UNCHANGED notOrchVars

\* _tick up to the filter of _check_revisions, lines 290-319.
CheckRevisions ==
    /\ opc = "idle"
    /\ ticked' = TRUE
    /\ ndisp' = NoneDispatched
    /\ \E listing \in {"raises", "tasks"}, n \in {0, MaxInProgress} :
          /\ listing = "raises" => n = 0
          /\ nrev' = n
          /\ IF n = 0 THEN opc' = "fetch" /\ scan' = 0
                      ELSE opc' = "revisions" /\ scan' = 1
    /\ olast' = NoEvent
    /\ UNCHANGED <<opid, battempt, locks, leaked, otime, ostage, cur>>
    /\ UNCHANGED notOrchVars

\* What run_sub_agent hands back for the Revision worker: the worker prints
\* a JSON list of result dicts (revision_agent.py, lines 163-167), so the
\* parsed payload is a list; run_sub_agent's own results are dicts.
Payload(kind, action) == [kind |-> kind, action |-> action]
RevisionResults ==
    {Payload("list", a) : a \in {"revised", "no_revision_needed", "error"}} \cup
    {Payload("dict", a) : a \in {"no_result", "timeout", "error"}}
\* Line 333.
IsRevised(r) == r.kind = "dict" /\ r.action = "revised"

\* _check_revisions, lines 321-337: one pass of `for task_summary in
\* revision_tasks`, the Revision worker run to its end; after the last, False.
RunRevision ==
    /\ opc = "revisions"
    /\ IF scan > nrev
       THEN /\ opc' = "fetch" /\ scan' = 0 /\ nrev' = 0
            /\ olast' = NoEvent
            /\ UNCHANGED ndisp
       ELSE \E r \in RevisionResults :
            /\ ndisp' = [ndisp EXCEPT !.rev = @ + 1]
            /\ olast' = Event("revision", 0, r.kind, FALSE, NoFile, r.action, 0)
            /\ IF IsRevised(r)
               THEN opc' = "sleep" /\ scan' = 0 /\ nrev' = 0
               ELSE opc' = "revisions" /\ scan' = scan + 1 /\ UNCHANGED nrev
    /\ UNCHANGED <<opid, battempt, ticked, locks, leaked, otime, ostage, cur>>
    /\ UNCHANGED notOrchVars

\* _check_work, lines 341-348: the listing of accepted claims.
FetchClaims ==
    /\ opc = "fetch"
    /\ \E listing \in {"raises", "empty", "claims"} :
          IF listing = "claims" THEN opc' = "work" /\ scan' = 1
                                ELSE opc' = "scout" /\ scan' = 0
    /\ olast' = NoEvent
    /\ UNCHANGED <<opid, battempt, ticked, nrev, ndisp, locks, leaked, otime, ostage, cur>>
    /\ UNCHANGED notOrchVars

\* run, lines 283-286: where an exception that escapes _tick takes the loop.
AfterException_Stops == "stopped"
AfterException == "sleep"

\* _check_work, lines 350-391: one pass of `for claim in accepted_claims` up
\* to the return of acquire_lock; after the last claim, return False.
ScanTask ==
    /\ opc = "work"
    /\ IF scan > Len(Listing)
       THEN /\ opc' = "scout" /\ scan' = 0
            /\ olast' = NoEvent
            /\ UNCHANGED <<locks, leaked, cur>>
       ELSE \E remote_done \in BOOLEAN, mkdirFault \in BOOLEAN,
               readFault \in BOOLEAN, writeFault \in BOOLEAN :
            LET task_id == Listing[scan]
                stage == PipelineStage(ostage[task_id])
                agent == AgentFor(stage)
                a == AcquireLock(locks[task_id], agent, opid, otime, readFault, writeFault)
                ev(ret) == Event("scan", task_id, ostage[task_id], remote_done,
                                 locks[task_id], ret, 0)
            IN  IF remote_done
                THEN /\ opc' = "work" /\ scan' = scan + 1
                     /\ olast' = ev("skip")
                     /\ UNCHANGED <<locks, leaked, cur>>
                ELSE IF mkdirFault
                THEN /\ opc' = AfterException /\ scan' = 0
                     /\ olast' = ev("exception")
                     /\ UNCHANGED <<locks, leaked, cur>>
                ELSE IF agent = "-"
                THEN /\ opc' = "work" /\ scan' = scan + 1
                     /\ olast' = ev("skip")
                     /\ UNCHANGED <<locks, leaked, cur>>
                ELSE /\ locks' = [locks EXCEPT ![task_id] = a.file]
                     /\ CASE a.ret = "False" ->
                               /\ opc' = "work" /\ scan' = scan + 1
                               /\ olast' = ev("False")
                               /\ UNCHANGED <<leaked, cur>>
                          [] a.ret = "raise" ->
                               /\ opc' = AfterException /\ scan' = 0
                               /\ olast' = ev("exception")
                               /\ UNCHANGED <<leaked, cur>>
                          [] OTHER ->
                               /\ opc' = "locked" /\ UNCHANGED scan
                               /\ olast' = ev("True")
                               /\ leaked' = leaked \ {task_id}
                               /\ cur' = [task |-> task_id, agent |-> agent,
                                          found |-> locks[task_id], at |-> otime,
                                          readFault |-> readFault /\ locks[task_id].kind # "none",
                                          reading |-> ostage[task_id]]
    /\ UNCHANGED <<opid, battempt, ticked, nrev, ndisp, otime, ostage>>
    /\ UNCHANGED notOrchVars

\* Line 391-394: log_think, then into the try and run_sub_agent.
Dispatch ==
    /\ opc = "locked"
    /\ opc' = "running"
    /\ ndisp' = [ndisp EXCEPT !.stage = @ + 1]
    /\ olast' = NoEvent
    /\ UNCHANGED <<opid, battempt, ticked, scan, nrev, locks, leaked, otime, ostage, cur>>
    /\ UNCHANGED notOrchVars

\* Lines 394-408: the worker ends or is killed on timeout, the dispatch is
\* logged, the lock is released in the finally, the result decides whether
\* the scan goes on.
WorkerReturns ==
    /\ opc = "running"
    /\ \E o \in RunOutcomes(cur.agent, ostage[cur.task]), d \in RunTimes,
          unlinkFault \in BOOLEAN :
          /\ otime + d <= MaxTime
          /\ (o.action = "timeout") = (d = 300)
          /\ otime' = otime + d
          /\ ostage' = [ostage EXCEPT ![cur.task] = o.stage]
          /\ locks' = [locks EXCEPT ![cur.task] = Released(@, opid, unlinkFault)]
          /\ leaked' = IF unlinkFault THEN leaked \cup {cur.task} ELSE leaked
          /\ olast' = Event("run", cur.task, ostage[cur.task], unlinkFault,
                            locks[cur.task], o.action, 0)
          /\ IF ContinuesScan(o.action)
             THEN opc' = "work" /\ scan' = scan + 1
             ELSE opc' = "sleep" /\ scan' = 0
    /\ cur' = NoDispatch
    /\ UNCHANGED <<opid, battempt, ticked, nrev, ndisp>>
    /\ UNCHANGED notOrchVars

\* What run_sub_agent can hand back for the Scout worker.
ScoutActions == {"claimed", "no_tasks", "error", "no_result", "timeout"}

\* _check_scout, lines 412-441: the capacity check and the Scout worker run
\* to its end.
CheckScout ==
    /\ opc = "scout"
    /\ \E listing \in {"raises", "counts"}, active_count \in ActiveCounts :
              IF listing = "raises"
              THEN /\ olast' = Event("scout", 0, "-", FALSE, NoFile, "fetch_failed", 0)
                   /\ UNCHANGED ndisp
              ELSE IF active_count >= max_active
              THEN /\ olast' = Event("scout", 0, "-", FALSE, NoFile, "at_capacity", active_count)
                   /\ UNCHANGED ndisp
              ELSE \E action \in ScoutActions :
                   /\ olast' = Event("scout", 0, "-", FALSE, NoFile, "dispatched", active_count)
                   /\ ndisp' = [ndisp EXCEPT !.scout = @ + 1]
    /\ opc' = "sleep"
    /\ UNCHANGED <<opid, battempt, ticked, scan, nrev, locks, leaked, otime, ostage, cur>>
    /\ UNCHANGED notOrchVars

\* run, lines 273-278 and 283-286: sleep one interval, then the next tick.
Sleep(d) ==
    /\ opc = "sleep"
    /\ otime + d <= MaxTime
    /\ otime' = otime + d
    /\ opc' = "idle"
    /\ ndisp' = NoneDispatched
    /\ olast' = NoEvent
    /\ UNCHANGED <<opid, battempt, ticked, scan, nrev, locks, leaked, ostage, cur>>
    /\ UNCHANGED notOrchVars

\* KeyboardInterrupt (run, lines 279-282).  While a worker runs,
\* subprocess.run kills it and the finally releases the lock; anywhere else
\* the interrupt goes straight up to run and the loop is left.
Interrupt ==
    /\ opc \notin {"startup", "exited", "stopped"}
    /\ IF opc = "running"
       THEN \E unlinkFault \in BOOLEAN, torn \in BOOLEAN :
              /\ locks' = [locks EXCEPT ![cur.task] = Released(@, opid, unlinkFault)]
              /\ leaked' = IF unlinkFault THEN leaked \cup {cur.task} ELSE leaked
              /\ ostage' = IF torn THEN [ostage EXCEPT ![cur.task] = "corrupt"] ELSE ostage
       ELSE UNCHANGED <<locks, leaked, ostage>>
    /\ opc' = "stopped"
    /\ scan' = 0
    /\ nrev' = 0
    /\ ndisp' = NoneDispatched
    /\ cur' = NoDispatch
    /\ olast' = NoEvent
    /\ UNCHANGED <<opid, battempt, ticked, otime>>
    /\ UNCHANGED notOrchVars

\* The operator starts the orchestrator again, some time later.
Restart(d) ==
    /\ opc = "stopped"
    /\ opid <= MaxRestarts
    /\ otime + d <= MaxTime
    /\ opid' = opid + 1
    /\ otime' = otime + d
    /\ opc' = "startup"
    /\ battempt' = 0
    /\ ticked' = FALSE
    /\ nrev' = 0
    /\ ndisp' = NoneDispatched
    /\ leaked' = {}
    /\ olast' = NoEvent
    /\ UNCHANGED <<scan, locks, ostage, cur>>
    /\ UNCHANGED notOrchVars

OrchNext ==
    \/ WaitForBackend
    \/ CheckRevisions \/ RunRevision \/ FetchClaims \/ ScanTask \/ Dispatch
    \/ WorkerReturns \/ CheckScout
    \/ \E d \in Intervals : Sleep(d)
    \/ Interrupt
    \/ \E d \in {0} \cup Intervals : Restart(d)

(***************************************************************************)
(*                     run_sub_agent (scripts/swarm.py)                    *)
(***************************************************************************)
MaxLines == 2        \* lines of worker output

\* A line of the worker's stdout.  "sentinel": the line starts with
\* __RESULT__: and the rest is the payload; "indented": the token is there
\* but not at the start of the line; "log": anything else.  A payload is
\* text that json.loads rejects ("bad") or a JSON value: a dict with an
\* action, or a list.
Line(kind, payload) == [kind |-> kind, payload |-> payload]
Lines ==
    {Line("log", Payload("-", "-")), Line("indented", Payload("dict", "coded"))} \cup
    {Line("sentinel", p) : p \in {Payload("bad", "-"), Payload("dict", "coded"),
                                  Payload("dict", "error"), Payload("list", "revised")}}
Outputs == UNION {[1..n -> Lines] : n \in 0..MaxLines}
RunExceptions == {"none", "TimeoutExpired", "OSError"}

\* Lines 167-173: the payload of the first line that starts with the
\* sentinel and whose payload json.loads accepts; a payload it rejects is
\* passed over.  Past the last line: no_result (lines 175-178; the exit_code
\* field of that dict is left out).
FirstParsed_FirstSentinelOnly(out, i) ==
    IF \E j \in i..Len(out) : out[j].kind = "sentinel"
    THEN LET j == CHOOSE j \in i..Len(out) :
                     out[j].kind = "sentinel" /\ \A k \in i..(j - 1) : out[k].kind # "sentinel"
         IN  IF out[j].payload.kind # "bad" THEN out[j].payload
             ELSE Payload("dict", "no_result")
    ELSE Payload("dict", "no_result")
RECURSIVE FirstParsed(_, _)
FirstParsed(out, i) ==
    IF i > Len(out) THEN Payload("dict", "no_result")
    ELSE IF out[i].kind = "sentinel" /\ out[i].payload.kind # "bad" THEN out[i].payload
    ELSE FirstParsed(out, i + 1)

\* Lines 147-187.
RunSubAgent(out, exc) ==
    CASE exc = "TimeoutExpired" -> Payload("dict", "timeout")
      [] exc = "OSError" -> Payload("dict", "error")
      [] OTHER -> FirstParsed(out, 1)

\* _check_work, line 405: the tick ends on this result.
EndsTick(r) == r.kind = "dict" /\ ~ContinuesScan(r.action)

RunInit ==
    /\ rpc = "idle"
    /\ rout = <<>>
    /\ rexc = "none"
    /\ rresult = Payload("-", "-")
    /\ rends = FALSE

\* subprocess.run (lines 148-156): the worker ran and left its output, or
\* the call raised.
RunWorker ==
    /\ rpc = "idle"
    /\ rpc' = "ran"
    /\ rout' \in Outputs
    /\ rexc' \in RunExceptions
    /\ UNCHANGED <<rresult, rends>>
    /\ UNCHANGED notRunVars

\* Lines 158-187, and the caller's test on what comes back.
HarvestResult ==
    /\ rpc = "ran"
    /\ rpc' = "done"
    /\ rresult' = RunSubAgent(rout, rexc)
    /\ rends' = EndsTick(RunSubAgent(rout, rexc))
    /\ UNCHANGED <<rout, rexc>>
    /\ UNCHANGED notRunVars

\* The caller goes on with the result; the call's locals are gone.
NextRun ==
    /\ rpc = "done"
    /\ rpc' = "idle"
    /\ rout' = <<>>
    /\ rexc' = "none"
    /\ UNCHANGED <<rresult, rends>>
    /\ UNCHANGED notRunVars

RunNext == RunWorker \/ HarvestResult \/ NextRun

(***************************************************************************)
(*      A stage worker's writes and the lock it was dispatched under       *)
(*      (scripts/swarm.py: acquire_lock, _check_work, run_sub_agent)       *)
(***************************************************************************)
\* run_sub_agent(..., timeout: int = 300): subprocess.run kills the worker
\* when it has run this long.
SubAgentTimeout == 300
MaxHoldTime == 402   \* the clock stops here
MaxRuns == 3         \* most worker processes started
\* Seconds that pass between the time.time() of acquire_lock and the start
\* of the worker process (log_think, log_act, the start of the interpreter).
SpawnDelays == {0, 1}
HoldSteps == {100, 199}

\* The last step, when it was a write of the state record by p's worker:
\* what the lock file held then ("own": the record p's acquire_lock wrote,
\* "other": another record, "none": no file) and how old p's record was.
NoWrite == [ev |-> "none", p |-> 0, lock |-> "-", age |-> 0]
StateWrite(p, f, rec, now) ==
    [ev |-> "write", p |-> p,
     lock |-> IF f = rec THEN "own" ELSE IF f.kind = "none" THEN "none" ELSE "other",
     age |-> now - rec.timestamp]

\* No running worker is past its timeout when d more seconds have passed.
WithinTimeout(d) ==
    \A q \in Procs : hpc[q] = "running" => hnow + d - hbegan[q] <= SubAgentTimeout

HoldInit ==
    /\ hlock = NoFile
    /\ hnow = 0
    /\ hpc = [p \in Procs |-> "idle"]
    /\ hrec = [p \in Procs |-> NoFile]
    /\ hbegan = [p \in Procs |-> 0]
    /\ hruns = 0
    /\ hlast = NoWrite

\* _check_work, line 388, and acquire_lock, lines 74-89: the check.
HoldCheck(p, readFault) ==
    /\ hpc[p] = "idle"
    /\ hpc' = [hpc EXCEPT ![p] = IF LockBlocks(hlock, AgentOf(p), hnow, readFault)
                                 THEN "idle" ELSE "checked"]
    /\ hlast' = NoWrite
    /\ UNCHANGED <<hlock, hnow, hrec, hbegan, hruns>>
    /\ UNCHANGED notHoldVars

\* acquire_lock, lines 91-95: the write and `return True`.
HoldWrite(p) ==
    /\ hpc[p] = "checked"
    /\ hlock' = LockWritten(hlock, AgentOf(p), p, hnow)
    /\ hrec' = [hrec EXCEPT ![p] = hlock']
    /\ hpc' = [hpc EXCEPT ![p] = "locked"]
    /\ hlast' = NoWrite
    /\ UNCHANGED <<hnow, hbegan, hruns>>
    /\ UNCHANGED notHoldVars

\* _check_work, lines 391-394, and run_sub_agent, lines 136-148: up to the
\* start of the worker process.
StartSubAgent(p, d) ==
    /\ hpc[p] = "locked"
    /\ hruns < MaxRuns
    /\ hruns' = hruns + 1
    /\ hnow + d <= MaxHoldTime
    /\ WithinTimeout(d)
    /\ hnow' = hnow + d
    /\ hbegan' = [hbegan EXCEPT ![p] = hnow + d]
    /\ hpc' = [hpc EXCEPT ![p] = "running"]
    /\ hlast' = NoWrite
    /\ UNCHANGED <<hlock, hrec>>
    /\ UNCHANGED notHoldVars

\* The worker of p's dispatch, not yet at its timeout, writes the task's
\* state record (_save_state, json.dump, append_commit_log).
WorkerWrites(p) ==
    /\ hpc[p] = "running"
    /\ hnow - hbegan[p] < SubAgentTimeout
    /\ hlast' = StateWrite(p, hlock, hrec[p], hnow)
    /\ UNCHANGED <<hlock, hnow, hpc, hrec, hbegan, hruns>>
    /\ UNCHANGED notHoldVars

\* The worker ends or is killed at its timeout; run_sub_agent returns and
\* the finally of _check_work releases the lock (lines 398-403).
SubAgentEnds(p, unlinkFault) ==
    /\ hpc[p] = "running"
    /\ hlock' = Released(hlock, p, unlinkFault)
    /\ hpc' = [hpc EXCEPT ![p] = "idle"]
    /\ hrec' = [hrec EXCEPT ![p] = NoFile]
    /\ hbegan' = [hbegan EXCEPT ![p] = 0]
    /\ hlast' = NoWrite
    /\ UNCHANGED <<hnow, hruns>>
    /\ UNCHANGED notHoldVars

HoldElapse(d) ==
    /\ hnow + d <= MaxHoldTime
    /\ WithinTimeout(d)
    /\ hnow' = hnow + d
    /\ hlast' = NoWrite
    /\ UNCHANGED <<hlock, hpc, hrec, hbegan, hruns>>
    /\ UNCHANGED notHoldVars

HoldNext ==
    \/ \E p \in Procs, fault \in BOOLEAN : HoldCheck(p, fault)
    \/ \E p \in Procs : HoldWrite(p)
    \/ \E p \in Procs, d \in SpawnDelays : StartSubAgent(p, d)
    \/ \E p \in Procs : WorkerWrites(p)
    \/ \E p \in Procs, fault \in BOOLEAN : SubAgentEnds(p, fault)
    \/ \E d \in HoldSteps : HoldElapse(d)

(***************************************************************************)
(*        write_progress (scripts/agents/base_agent.py, coder_agent.py)    *)
(***************************************************************************)
MaxLog == 4          \* most records of progress.jsonl

\* A line of progress.jsonl: who wrote it and its "index".
ProgressStep(by, idx) == [by |-> by, index |-> idx]

\* base_agent.write_progress, lines 110-116: the number of non-blank lines
\* the file holds.
NextIndex(file) == Len(file)

\* coder_agent.write_progress, lines 80-81: the module's own counter, which
\* starts at 0 in every Coder process.
CoderNextIndex(file, counter) == counter

\* The Coder's calls at lines 341 and 543 are made in every run that
\* returns coded.
CodedAfterCalls == 2

ProgressInit ==
    /\ progress_file = <<>>
    /\ pstage = "coding"
    /\ pworker = "none"
    /\ progress_index = 0

\* The orchestrator dispatches the stage's worker (the Tester writes no
\* progress: its run is the verdict at the end of the Coder's).
StartProgressWorker ==
    /\ pworker = "none"
    /\ pstage \in {"coding", "deploying"}
    /\ pworker' = AgentFor(pstage)
    /\ progress_index' = 0
    /\ UNCHANGED <<progress_file, pstage>>
    /\ UNCHANGED notProgressVars

\* coder_agent.write_progress, lines 66-101; an exception from the append is
\* logged and swallowed after the counter has moved on.
CoderWriteProgress(fault) ==
    /\ pworker = "Coder"
    /\ Len(progress_file) < MaxLog
    /\ progress_index < MaxLog
    /\ progress_index' = progress_index + 1
    /\ progress_file' =
          IF fault THEN progress_file
          ELSE Append(progress_file,
                      ProgressStep("Coder", CoderNextIndex(progress_file, progress_index)))
    /\ UNCHANGED <<pstage, pworker>>
    /\ UNCHANGED notProgressVars

\* base_agent.write_progress, lines 94-132, as the Deployer calls it; any
\* exception is swallowed and nothing is written.
WriteProgress(fault) ==
    /\ pworker = "Deployer"
    /\ Len(progress_file) < MaxLog
    /\ progress_file' =
          IF fault THEN progress_file
          ELSE Append(progress_file, ProgressStep("Deployer", NextIndex(progress_file)))
    /\ UNCHANGED <<pstage, pworker, progress_index>>
    /\ UNCHANGED notProgressVars

\* The Coder returns coded and the Tester passes or fails the code; or the
\* Deployer returns deployed.
ProgressWorkerReturns ==
    /\ pworker # "none"
    /\ pworker = "Coder" => progress_index >= CodedAfterCalls
    /\ pstage' \in IF pworker = "Coder" THEN {"coding", "deploying"} ELSE {"delivered"}
    /\ pworker' = "none"
    /\ progress_index' = 0
    /\ UNCHANGED progress_file
    /\ UNCHANGED notProgressVars

\* The worker raises or is killed on timeout: the stage stays.
ProgressWorkerFails ==
    /\ pworker # "none"
    /\ pworker' = "none"
    /\ progress_index' = 0
    /\ UNCHANGED <<progress_file, pstage>>
    /\ UNCHANGED notProgressVars

ProgressNext ==
    \/ StartProgressWorker
    \/ \E fault \in BOOLEAN : CoderWriteProgress(fault)
    \/ \E fault \in BOOLEAN : WriteProgress(fault)
    \/ ProgressWorkerReturns
    \/ ProgressWorkerFails

(***************************************************************************)
(*                            Specifications                               *)
(***************************************************************************)
Init ==
    /\ ClientInit /\ LockInit /\ PipeInit /\ OrchInit /\ RunInit /\ HoldInit
    /\ ProgressInit

SpecClient == Init /\ [][ClientNext]_vars

SpecLock == Init /\ [][LockNext]_vars

Spec == Init /\ [][PipeNext]_vars

SpecOrch == Init /\ [][OrchNext]_vars

SpecRun == Init /\ [][RunNext]_vars

SpecHold == Init /\ [][HoldNext]_vars

SpecProgress == Init /\ [][ProgressNext]_vars

(***************************************************************************)
(*            Claims about the pipeline and the dispatch                   *)
(***************************************************************************)

\* C1: across any sequence of Coder, Tester and Deployer runs on a task,
\* runs that error, are killed or are resumed included, the persisted stage
\* changes only along coding->testing, testing->deploying,
\* deploying->delivered and testing->coding, and never once it is delivered.
StageEdges ==
    {<<"coding", "testing">>, <<"testing", "deploying">>,
     <<"deploying", "delivered">>, <<"testing", "coding">>}
C1_StageFollowsEdges ==
    [][\/ PersistedStage(stateFile)' = PersistedStage(stateFile)
       \/ <<PersistedStage(stateFile), PersistedStage(stateFile)'>> \in StageEdges]_vars

\* C2: with a single orchestrator process, no stage worker is dispatched for
\* a task while an unexpired lock record for the task's workspace is present:
\* whenever the orchestrator is past acquire_lock, what acquire_lock found in
\* the lock file was not a record younger than LOCK_TIMEOUT.
Unexpired(f, now) == f.kind = "rec" /\ now - f.timestamp < LOCK_TIMEOUT
C2_NoDispatchOverUnexpiredLock ==
    opc \in {"locked", "running"} => ~Unexpired(cur.found, cur.at)

\* The same for the dispatches whose acquire_lock read the file without an
\* exception.
DispatchRespectsReadableLock ==
    (opc \in {"locked", "running"} /\ ~cur.readFault) => ~Unexpired(cur.found, cur.at)
\* A dispatch over a record that had expired, and a task skipped because its
\* record had not.
DispatchOverStaleLock ==
    opc = "running" /\ cur.found.kind = "rec" /\ cur.at - cur.found.timestamp >= LOCK_TIMEOUT
SkippedOverUnexpiredLock ==
    /\ opc = "work" /\ scan > 1 /\ scan <= Len(Listing) + 1
    /\ Unexpired(locks[Listing[scan - 1]], otime)

\* The worker runs of SpecOrch are the runs of Spec: whatever a run of the
\* stage's own worker returns and leaves in the state file is one of
\* RunOutcomes.
RunOutcomesCoverRuns ==
    (/\ worker = "none" /\ result # "-"
     /\ started.agent = AgentFor(PipelineStage(Reading(started.file))))
        => Outcome(result, Reading(stateFile))
               \in RunOutcomes(started.agent, Reading(started.file))

(***************************************************************************)
(*                      Claims about the file lock                         *)
(***************************************************************************)

\* C3.  acquire_lock is a read-then-write with no check-and-set: a process
\* that went past its check (the record was absent or stale then) writes its
\* record and returns True even when, by the time of its write, the file
\* holds the unexpired record another process wrote in between.  So two
\* concurrent callers can both return True and both believe they hold it.
C3_WriteNeverRechecks ==
    (/\ lastOp.op = "write"
     /\ ~lastOp.fault
     /\ lastOp.why \in {"absent", "stale"}
     /\ LockBlocks(lastOp.before, AgentOf(lastOp.p), clock, FALSE))
    => (/\ lastOp.ret = "True"
        /\ lockFile = NewLock(AgentOf(lastOp.p), lastOp.p, clock)
        /\ holding[lastOp.p])

\* Both processes passed the check on a free workspace, both returned True
\* and neither has released: the second write found the first one's record.
C3_BothHold ==
    /\ \A p \in Procs : holding[p]
    /\ lastOp.op = "write"
    /\ lastOp.ret = "True"
    /\ lastOp.why \in {"absent", "stale"}
    /\ lastOp.before.kind = "rec"
    /\ lastOp.before.pid # lastOp.p
    /\ clock - lastOp.before.timestamp < LOCK_TIMEOUT

\* C4.  Absent I/O faults, a readable record younger than LOCK_TIMEOUT makes
\* acquire_lock return False and leave the file as it was, whoever calls
\* (the record's own writer included); a record older than LOCK_TIMEOUT lets
\* the caller through, and the caller then overwrites it and returns True.
C4_AgeDecides ==
    /\ (/\ lastOp.op = "check"
        /\ ~lastOp.fault
        /\ lastOp.before.kind = "rec"
        /\ clock - lastOp.before.timestamp < LOCK_TIMEOUT)
       => (/\ lastOp.ret = "False"
           /\ lockFile = lastOp.before
           /\ lpc[lastOp.p] = "idle"
           /\ ~holding[lastOp.p])
    /\ (/\ lastOp.op = "check"
        /\ ~lastOp.fault
        /\ lastOp.before.kind = "rec"
        /\ clock - lastOp.before.timestamp > LOCK_TIMEOUT)
       => (/\ lastOp.ret = "pass"
           /\ lpc[lastOp.p] = "stale")
    /\ (/\ lastOp.op = "write"
        /\ ~lastOp.fault
        /\ lastOp.why = "stale")
       => (/\ lastOp.ret = "True"
           /\ lockFile = NewLock(AgentOf(lastOp.p), lastOp.p, clock)
           /\ holding[lastOp.p])

\* A record another process wrote 301 s ago has just been overridden.
C4_Override301 ==
    /\ lastOp.op = "write"
    /\ lastOp.why = "stale"
    /\ lastOp.ret = "True"
    /\ lastOp.before.kind = "rec"
    /\ lastOp.before.pid # lastOp.p
    /\ clock - lastOp.before.timestamp = 301
    /\ lockFile.pid = lastOp.p

\* C5.  acquire_lock; release_lock; acquire_lock by one process, with no
\* other process touching the file in between and no I/O fault: the second
\* acquire_lock returns True however little time has passed, and the first
\* does whenever it found no unexpired record.
C5_ReacquireAfterRelease ==
    \A p \in Procs :
        /\ lhist[p].n = 3 => lhist[p].r2 = "True"
        /\ (lhist[p].n >= 1 /\ lhist[p].free) => lhist[p].r1 = "True"

\* The three calls were made with no time passing, and both acquires succeeded.
C5_ImmediateReacquire ==
    \E p \in Procs :
        /\ lhist[p].n = 3
        /\ lhist[p].fast
        /\ lhist[p].r1 = "True"
        /\ lhist[p].r2 = "True"
        /\ holding[p]

\* C6.  release_lock removes the record whoever wrote it and whatever its
\* age (unless unlink itself fails, which is swallowed); with no record it
\* changes nothing; it never raises.
C6_ReleaseRemoves ==
    lastOp.op = "release" =>
        /\ lastOp.ret = "None"
        /\ ~lastOp.fault => lockFile = NoFile
        /\ lastOp.before = NoFile => lockFile = NoFile
        /\ ~holding[lastOp.p]

\* A process has just released the unexpired record of the other process.
C6_ReleasedForeignRecord ==
    /\ lastOp.op = "release"
    /\ lastOp.before.kind = "rec"
    /\ lastOp.before.pid # lastOp.p
    /\ clock - lastOp.before.timestamp < LOCK_TIMEOUT
    /\ lockFile = NoFile

\* C7.  acquire_lock fails closed: when reading or parsing the existing
\* record fails, or the write of the new record fails, it returns False.
C7_FailsClosed ==
    /\ (/\ lastOp.op = "check"
        /\ (lastOp.fault \/ lastOp.before.kind = "corrupt"))
       => lastOp.ret = "False"
    /\ (lastOp.op = "write" /\ lastOp.fault) => lastOp.ret = "False"

(***************************************************************************)
(*                   Claims about _request_with_retry                      *)
(***************************************************************************)
Last(q) == q[Len(q)]
AllRetryable == \A i \in 1..Len(resps) : Retryable(resps[i])
IsAttemptOrSleep(e) == e.ev \in {"attempt", "sleep"}
AttemptsAndSleeps == SelectSeq(ctrace, IsAttemptOrSleep)

\* C8.  A 4xx response is never retried: no attempt and no sleep follows
\* it, and the call returns (the body, or a structured error) without raising.
C8_ClientErrorReturned ==
    \A i \in 1..Len(resps) :
        IsClientError(resps[i]) =>
            /\ i = Len(resps)
            /\ cpc = "done"
            /\ Last(ctrace).ev = "attempt"
            /\ outcome.kind = "return"

\* C11.  A 2xx response whose body is empty, is not JSON or is malformed
\* JSON ends the request with a structured {ok: false, error} result: the
\* call does not raise and makes no further attempt, whatever the
\* content-type header of the response is.
IsSuccess(r) == r.kind = "http" /\ r.status >= 200 /\ r.status < 300
C11_BadSuccessBodyStructured ==
    \A i \in 1..Len(resps) :
        (IsSuccess(resps[i]) /\ ~JsonParses(resps[i].body)) =>
            /\ i = Len(resps)
            /\ cpc = "done"
            /\ Last(ctrace).ev = "attempt"
            /\ outcome.kind = "return"
            /\ outcome.val \in {"empty_response", "non_json"}

\* C9.  While every attempt fails with a transient error or a 5xx, the call
\* makes exactly MAX_RETRIES attempts: it is not done before the last one,
\* done at it, with a sleep between consecutive attempts and none after the last.
C9_RetryableGetsMaxAttempts ==
    (cpc # "idle" /\ AllRetryable) =>
        /\ Len(resps) <= MAX_RETRIES
        /\ cpc = "done" <=> Len(resps) = MAX_RETRIES
        /\ Len(AttemptsAndSleeps) =
              IF cpc = "done" THEN 2 * MAX_RETRIES - 1 ELSE 2 * Len(resps)
        /\ \A k \in 1..Len(AttemptsAndSleeps) :
              AttemptsAndSleeps[k].ev = IF k % 2 = 1 THEN "attempt" ELSE "sleep"

\* Three failed attempts, transient errors and 5xx responses mixed.
C9_ExhaustedMixed ==
    /\ cpc = "done"
    /\ Len(resps) = MAX_RETRIES
    /\ AllRetryable
    /\ \E i \in 1..Len(resps) : IsTransient(resps[i])
    /\ \E i \in 1..Len(resps) : IsServerError(resps[i])

\* C10.  When all MAX_RETRIES attempts failed with a retryable failure the
\* call raises the last error met, be it a transient error or a 5xx.
C10_ExhaustedRaisesLast ==
    (cpc = "done" /\ Len(resps) = MAX_RETRIES /\ AllRetryable) =>
        /\ outcome.kind = "raise"
        /\ outcome.val = IF IsServerError(Last(resps)) THEN "HTTPStatusError"
                         ELSE Last(resps).err

(***************************************************************************)
(*                  Claims about the orchestrator's tick                   *)
(***************************************************************************)

\* The three priorities are gone through in the order revision,
\* pipeline-advance, scout: no stage worker has been started while the
\* revision tasks are looked at, and no Scout before the scan of the claims
\* is over.
PrioritiesInOrder ==
    /\ opc \in {"revisions", "fetch"} => ndisp.stage = 0 /\ ndisp.scout = 0
    /\ opc \in {"work", "locked", "running", "scout"} => ndisp.scout = 0
DispatchedInTick == ndisp.rev + ndisp.stage + ndisp.scout

\* C12: every tick goes through the priorities in the order revision,
\* pipeline-advance, scout, and starts at most one sub-agent process,
\* whatever the workers return.
C12_OneDispatchPerTick == PrioritiesInOrder /\ DispatchedInTick <= 1

\* C13: when at least one owned task qualifies for revision, a Revision
\* worker is started for the first of them only and the tick ends there,
\* whatever the worker returns: pipeline-advance and scout are not looked at.
C13_RevisionEndsTick ==
    ndisp.rev >= 1 => ndisp.rev = 1 /\ opc = "sleep"

\* A tick that started a Revision worker for every revision task and then
\* went on to start a stage worker.
RevisionsThenStageWorker == ndisp.rev = MaxInProgress /\ ndisp.stage >= 1

\* The dispatch table of the claim, by what the state file gives when read.
ExpectedAgent(reading) ==
    IF reading \in {"coding", "none", "corrupt"} THEN "Coder"
    ELSE IF reading = "testing" THEN "Tester"
    ELSE IF reading = "deploying" THEN "Deployer"
    ELSE "-"

\* C14: a dispatched task gets the Coder exactly when its persisted stage is
\* coding or it has no readable state record, the Tester exactly when it is
\* testing, the Deployer exactly when it is deploying; a task whose remote
\* status is completed, delivered or cancelled, or whose persisted stage is
\* delivered, is never locked and never dispatched.
C14_DispatchMapping ==
    /\ opc \in {"locked", "running"} =>
          /\ cur.agent \in Workers
          /\ cur.agent = ExpectedAgent(cur.reading)
          /\ cur.reading = ostage[cur.task]
    /\ (olast.ev = "scan" /\ (olast.done \/ ExpectedAgent(olast.reading) = "-")) =>
          /\ olast.ret \in {"skip", "exception"}
          /\ locks[olast.task] = olast.before
          /\ opc \notin {"locked", "running"}
\* A task that went through Coder, Tester and Deployer is passed over by the
\* next scan, its remote status still open.
C14_DeliveredSkipped ==
    /\ olast.ev = "scan" /\ olast.ret = "skip"
    /\ ~olast.done /\ olast.reading = "delivered"
\* A task whose state file does not parse is locked for the Coder.
CorruptDispatchesCoder ==
    opc = "locked" /\ cur.reading = "corrupt" /\ cur.agent = "Coder"

\* The task's lock file holds a record this orchestrator process wrote and
\* did not fail to unlink.
OwnLock(t) == locks[t].kind = "rec" /\ locks[t].pid = opid /\ t \notin leaked

\* C15: every lock acquired in pipeline-advance is released before the tick
\* ends, whatever the worker returns; between ticks, and anywhere in the
\* loop outside the dispatch in progress, no lock record written by the
\* orchestrator remains (a release whose unlink fails is swallowed and set
\* aside).
C15_LocksReleasedByTickEnd ==
    opc # "stopped" =>
        \A t \in Tasks : OwnLock(t) => opc \in {"locked", "running"} /\ t = cur.task
\* A worker was killed on timeout and the tick has ended with the lock file
\* removed.
C15_ReleasedAfterTimeout ==
    /\ opc = "sleep" /\ olast.ev = "run" /\ olast.ret = "timeout" /\ ~olast.done
    /\ olast.before.kind = "rec" /\ olast.before.pid = opid
    /\ locks[olast.task] = NoFile
\* The same after a worker that returned an error: the scan goes on with the
\* lock file removed.
ReleasedAfterError ==
    /\ opc = "work" /\ olast.ev = "run" /\ olast.ret = "error" /\ ~olast.done
    /\ locks[olast.task] = NoFile

\* C16: an interrupt at any point of a tick, between a successful
\* acquire_lock and the start of the worker and while the worker runs
\* included, ends the loop and leaves no lock record written by this
\* orchestrator behind.
C16_InterruptLeavesNoLock ==
    opc = "stopped" => \A t \in Tasks : ~OwnLock(t)

\* An interrupt that arrives while the worker runs does release the lock.
InterruptedRunReleases ==
    [][(opc = "running" /\ opc' = "stopped") =>
          (locks'[cur.task].kind = "rec" /\ locks'[cur.task].pid = opid => cur.task \in leaked')]_vars
\* An interrupt that arrives after acquire_lock and before the try does not.
InterruptedBeforeTryKeepsLock ==
    [][(opc = "locked" /\ opc' = "stopped") => locks'[cur.task] = locks[cur.task]]_vars

ScoutDispatched == olast.ev = "scout" /\ olast.ret = "dispatched"

\* C17: the Scout is started only if no Revision worker and no stage worker
\* was started earlier in the same tick, and only if the pending and
\* accepted claims together are fewer than max_active.
C17_ScoutOnlyWhenIdleAndUnderCapacity ==
    ScoutDispatched =>
        /\ ndisp.rev = 0 /\ ndisp.stage = 0
        /\ olast.n < max_active

\* The capacity half alone, with the Scout held back at max_active and
\* started just below it.
ScoutOnlyUnderCapacity ==
    /\ ScoutDispatched => olast.n < max_active
    /\ (olast.ev = "scout" /\ olast.ret = "at_capacity") =>
          olast.n >= max_active /\ ndisp.scout = 0
ScoutHeldAtCapacity == olast.ev = "scout" /\ olast.ret = "at_capacity" /\ olast.n = max_active
ScoutJustUnderCapacity == ScoutDispatched /\ olast.n = max_active - 1
\* A Scout started in a tick that had already started a stage worker.
ScoutAfterStageWorker == ScoutDispatched /\ ndisp.rev = 0 /\ ndisp.stage >= 1

TickRaised == olast.ev = "scan" /\ olast.ret = "exception"

\* C18: an exception raised inside a tick never ends the loop: it is caught
\* at the tick boundary, the loop sleeps one interval and the next tick can
\* begin; once the loop runs, only an interrupt ends it.
C18_ExceptionKeepsLooping ==
    /\ [](TickRaised => opc = "sleep")
    /\ [](opc = "idle" => ENABLED CheckRevisions)
    /\ [][/\ opc = "sleep" =>
                \/ opc' = "idle" /\ otime' - otime \in Intervals /\ locks' = locks
                \/ Interrupt
          /\ (opc \notin {"startup", "stopped"} /\ opc' \in {"stopped", "exited", "startup"}) =>
                Interrupt]_vars
\* A tick raised out of the scan (mkdir or the lock write failed), and there
\* is time left for the sleep and the next tick.
C18_RaisedThenSleeps ==
    TickRaised /\ ENABLED (\E d \in Intervals : Sleep(d))

\* C19: at startup, if get_profile fails every time, _wait_for_backend makes
\* exactly max_retries attempts and the process exits without having run a
\* tick; an attempt that succeeds ends the retrying and the tick loop is
\* entered.
C19_StartupRetriesThenExits ==
    /\ [](opc = "exited" => battempt = max_retries /\ ~ticked)
    /\ [](opc = "startup" => battempt < max_retries /\ ~ticked)
    /\ [](ticked => opc \notin {"startup", "exited"})
    /\ [][opc = "startup" =>
            /\ opc' \in {"startup", "exited"} => battempt' = battempt + 1
            /\ opc' \notin {"startup", "exited"} => opc' = "idle"]_vars
\* All max_retries attempts failed and the process has exited.
C19_ExitedAfterAllAttempts == opc = "exited" /\ battempt = max_retries

(***************************************************************************)
(*                      Claims about run_sub_agent                         *)
(***************************************************************************)
\* The lines of the output that start with the sentinel and carry a payload
\* that parses.
ParsedSentinels(out) ==
    {i \in 1..Len(out) : out[i].kind = "sentinel" /\ out[i].payload.kind # "bad"}

\* C20: when the worker ran to its end, run_sub_agent returns the JSON
\* payload of the sentinel line of its output (of the first that parses);
\* when the output has no sentinel line, or none whose payload parses, the
\* result is action no_result, on which the pipeline-advance scan goes on to
\* the next task instead of ending the tick.
C20_SentinelPayloadOrNoResult ==
    (rpc = "done" /\ rexc = "none") =>
        IF ParsedSentinels(rout) = {}
        THEN rresult = Payload("dict", "no_result") /\ ~rends
        ELSE \E i \in ParsedSentinels(rout) :
                /\ \A j \in ParsedSentinels(rout) : i <= j
                /\ rresult = rout[i].payload
\* A sentinel line that does not parse, then one that does.
C20_BadSentinelThenGood ==
    /\ rpc = "done" /\ rexc = "none" /\ Len(rout) = 2
    /\ rout[1].kind = "sentinel" /\ rout[1].payload.kind = "bad"
    /\ rout[2].kind = "sentinel" /\ rresult = rout[2].payload
\* Only sentinel lines that do not parse and the token away from the start
\* of a line: no_result.
NoResultFromUnparsable ==
    /\ rpc = "done" /\ rexc = "none" /\ Len(rout) = 2
    /\ rout[1].kind = "sentinel" /\ rout[2].kind = "indented"
    /\ rresult.action = "no_result"

\* In the orchestrator: after a stage worker's no_result the scan goes on to
\* the next claim, the lock is released, and the state file reads as before.
NoResultContinuesScan ==
    [][(olast'.ev = "run" /\ olast'.ret = "no_result") =>
          /\ opc' = "work" /\ scan' = scan + 1
          /\ ostage' = ostage
          /\ ndisp' = ndisp]_vars

(***************************************************************************)
(*                  Claims about the workers' runs                         *)
(***************************************************************************)
\* The run that ended last was cut by run_sub_agent's timeout.
KilledRun == worker = "none" /\ result = "timeout"

\* C21: when a stage worker is killed on timeout, at whatever point of its
\* run, the result is action timeout and the task's persisted stage is the
\* one it had before the dispatch, so that the next tick dispatches the same
\* stage's worker again.
C21_KilledRunKeepsStage ==
    KilledRun =>
        /\ PersistedStage(stateFile) = PersistedStage(started.file)
        /\ AgentFor(PipelineStage(Reading(stateFile))) =
              AgentFor(PipelineStage(Reading(started.file)))

\* A Coder killed after its last save and before its process ended.
KilledAfterFinalSave ==
    /\ KilledRun /\ started.agent = "Coder"
    /\ PersistedStage(started.file) = "coding" /\ PersistedStage(stateFile) = "testing"
\* A Tester killed after it saved the failed build, while committing and
\* pushing it.
KilledAfterBuildFailSave ==
    /\ KilledRun /\ started.agent = "Tester"
    /\ PersistedStage(started.file) = "testing" /\ Loads(stateFile)
    /\ stateFile.status = "coding" /\ stateFile.test_errors

\* The Coder is executing plan step wstep: its files are generated and
\* written, the commit and the record in completed_steps follow.
ExecutingStep == worker = "Coder" /\ wpc \in {"c_step_log", "c_step_save"}

\* C22: a Coder run never executes a plan step that is recorded in
\* completed_steps, neither in the file the run found nor in the file as it
\* is; it goes through the steps in plan order, over any number of
\* interrupted and resumed runs.
C22_RecordedStepsNotReExecuted ==
    /\ [](ExecutingStep =>
            /\ wstep \in 1..mem.plan
            /\ wstep \notin started.file.completed_steps
            /\ Loads(stateFile) => wstep \notin stateFile.completed_steps)
    /\ [][(worker = "Coder" /\ worker' = "Coder") => wstep' >= wstep]_vars
\* A resumed run, step 1 recorded by an earlier run that was cut short, is
\* executing step 2.
C22_ResumedAtSecondStep ==
    /\ ExecutingStep /\ wstep = 2
    /\ started.file.completed_steps = {1} /\ started.file.iterations = 0

\* Every step of the persisted plan is recorded in completed_steps.
AllStepsRecorded(f) == f.plan >= 1 /\ f.completed_steps = 1..f.plan

\* C23: the Coder moves the stage from coding to testing only when every
\* step of the persisted plan is recorded in completed_steps; while a plan
\* step is not recorded the stage stays coding after the run.
C23_TestingOnlyWhenAllStepsRecorded ==
    [][(worker = "Coder" /\ PersistedStage(stateFile) = "coding"
            /\ PersistedStage(stateFile') = "testing") =>
          AllStepsRecorded(stateFile')]_vars
\* A Coder run that returned coded and left the stage testing with a plan
\* step unrecorded.
CodedWithStepUnrecorded ==
    /\ worker = "none" /\ result = "coded" /\ started.agent = "Coder"
    /\ stateFile.status = "testing" /\ ~AllStepsRecorded(stateFile)

\* A Tester run that went to its end after the test command, or the
\* production build, had failed.
TesterFailedRun ==
    /\ worker = "none" /\ result = "tested" /\ started.agent = "Tester"
    /\ started.verdict \in {"failed", "build_failed"}

\* C24: when the Tester runs on a task in stage testing and the test command
\* exits non-zero, or the production build fails, the persisted state after
\* the run has stage coding and a non-empty test_errors.
C24_FailedTestsGoBackToCoding ==
    TesterFailedRun =>
        /\ started.file.status = "testing"
        /\ Loads(stateFile) /\ stateFile.status = "coding" /\ stateFile.test_errors
\* The test command failed on a task that had no test_errors before.
C24_FirstFailure ==
    TesterFailedRun /\ started.verdict = "failed" /\ ~started.file.test_errors
\* The same after a failed production build.
FirstBuildFailure ==
    TesterFailedRun /\ started.verdict = "build_failed" /\ ~started.file.test_errors

\* iterations as a reader of the state file gets it (0 without a record).
Iterations(f) == IF Loads(f) THEN f.iterations ELSE 0

\* C25: on every testing->coding failure transition performed by the Tester
\* the persisted iteration count is exactly 1 greater than it was before
\* that Tester run.
C25_FailureIncrementsIterations ==
    TesterFailedRun => Iterations(stateFile) = Iterations(started.file) + 1

\* No Tester run that goes to its end changes the count.
TesterKeepsIterations ==
    (worker = "none" /\ result = "tested" /\ started.agent = "Tester") =>
        Iterations(stateFile) = Iterations(started.file)
\* It is the Coder that adds one, in the save that sets the stage to testing.
CoderIncrementsIterations ==
    (worker = "none" /\ result = "coded" /\ started.agent = "Coder") =>
        Iterations(stateFile) = Iterations(started.file) + 1

\* The step takes the persisted stage from coding to testing.
CodingToTesting ==
    PersistedStage(stateFile) = "coding" /\ PersistedStage(stateFile)' = "testing"

\* C26: the iteration count never decreases and always equals the number of
\* coding->testing transitions performed so far: it starts at 0, a step that
\* moves the persisted stage from coding to testing adds one to it, and no
\* other step changes it.
C26_IterationsCountTransitions ==
    [][Iterations(stateFile)' =
          Iterations(stateFile) + (IF CodingToTesting THEN 1 ELSE 0)]_vars

\* The same for the steps that leave a readable record.
IterationsCountWhileReadable ==
    [][Loads(stateFile)' =>
          Iterations(stateFile)' =
             Iterations(stateFile) + (IF CodingToTesting THEN 1 ELSE 0)]_vars
\* A record that had counted a transition, torn by a kill.
CountLostInTornWrite ==
    /\ KilledRun /\ stateFile.kind = "corrupt" /\ Iterations(started.file) >= 1

\* C27: test_errors is cleared on success: whenever the stage moves from
\* testing to deploying, by the test run or by the shortcut for a task
\* without test command, the persisted test_errors is empty, and every
\* state with stage deploying or delivered has empty test_errors.
C27_NoTestErrorsPastTesting ==
    /\ []((Loads(stateFile) /\ stateFile.status \in {"deploying", "delivered"}) =>
             ~stateFile.test_errors)
    /\ [][(PersistedStage(stateFile) = "testing" /\ PersistedStage(stateFile)' = "deploying") =>
             (worker = "Tester" /\ ~stateFile'.test_errors)]_vars
\* The tests passed on a task that carried the errors of an earlier failure.
C27_PassedAfterFailure ==
    /\ worker = "none" /\ result = "tested" /\ started.verdict = "passed"
    /\ started.file.test_errors /\ stateFile.status = "deploying"
\* The shortcut taken for a task without test command.
ShortcutToDeploying ==
    /\ worker = "none" /\ result = "tested" /\ started.verdict = "-"
    /\ ~started.file.test_command /\ stateFile.status = "deploying"

\* The worker the orchestrator would dispatch for the task as the state
\* file stands (swarm.py, lines 364-385).
NextAgent == AgentFor(PipelineStage(Reading(stateFile)))

\* C28: the coding<->testing loop has no iteration cap.  Whatever the
\* iteration count, a failed Tester run sends the task back to coding, where
\* the Coder is the worker dispatched, and a Coder run that returns sends it
\* to testing, where the Tester is; the stage gets past testing only through
\* a Tester run whose tests passed or were skipped, so a task whose Tester
\* fails every time goes round for ever, its count growing with every round.
C28_NoIterationCap ==
    /\ [](TesterFailedRun => stateFile.status = "coding" /\ NextAgent = "Coder")
    /\ []((worker = "none" /\ result = "coded") =>
             /\ stateFile.status = "testing" /\ NextAgent = "Tester"
             /\ Iterations(stateFile) = Iterations(started.file) + 1)
    /\ [][(PersistedStage(stateFile)' \in {"deploying", "delivered"}
             /\ PersistedStage(stateFile) \notin {"deploying", "delivered"}) =>
          (worker = "Tester" /\ started'.verdict \in {"passed", "-"})]_vars
\* The Tester has failed in every round up to the last one the model goes
\* to, and the task is back in coding once more.
C28_FailedInLastRound ==
    TesterFailedRun /\ Iterations(stateFile) = MaxIter /\ started.file.test_errors

\* The persisted plan: how many steps, and its scaffold command (no plan
\* without a readable record).
NoPlan == [steps |-> 0, scaffold_command |-> FALSE]
Plan(f) ==
    IF Loads(f) THEN [steps |-> f.plan, scaffold_command |-> f.scaffold_command]
    ELSE NoPlan

\* C29: the plan is produced once: the first Coder run persists a plan with
\* at least one step, and no later step of a Coder, Tester or Deployer run
\* replaces or alters the persisted plan.
C29_PlanProducedOnce ==
    /\ []((worker = "none" /\ result = "coded") => Plan(stateFile).steps >= 1)
    /\ [][Plan(stateFile) # NoPlan => Plan(stateFile)' = Plan(stateFile)]_vars

\* The same for the steps that leave a readable record.
PlanKeptWhileReadable ==
    [][(Plan(stateFile) # NoPlan /\ Loads(stateFile)') =>
          Plan(stateFile)' = Plan(stateFile)]_vars
\* A Coder run that follows a test failure has gone past planning with the
\* plan it found.
CoderKeepsPlanAfterFailure ==
    /\ worker = "Coder" /\ wpc = "c_step" /\ started.file.test_errors
    /\ Plan(stateFile) = Plan(started.file) /\ Plan(stateFile).steps >= 1

\* The number of entries of the persisted commit_log.
CommitLog(f) == IF Loads(f) THEN f.commit_log ELSE 0

\* C30: commit_log is append-only: every entry once persisted is still
\* there in every later readable version of the record, so the number of
\* entries never goes down; no worker's save of its in-memory state drops
\* an entry written by append_commit_log.
C30_CommitLogAppendOnly ==
    [][Loads(stateFile)' => CommitLog(stateFile)' >= CommitLog(stateFile)]_vars

\* A Coder run's save has dropped the entry append_commit_log wrote for the
\* plan commit.
PlanCommitEntryDropped ==
    /\ worker = "Coder" /\ wpc = "c_step" /\ Loads(stateFile)
    /\ mem.scaffolded /\ ~started.file.scaffolded
    /\ CommitLog(stateFile) = 0 /\ CommitLog(started.file) = 0
\* Every save of a worker's state dict writes the commit log as the worker
\* loaded it: what append_commit_log added in between lasts until that save.
SavesCarryLoadedLog ==
    [][(stateFile' # stateFile /\ Loads(stateFile)' /\ stateFile' = mem') =>
          CommitLog(stateFile)' = CommitLog(started.file)]_vars

(***************************************************************************)
(*        Claims about the workspace, the progress log and the scan        *)
(***************************************************************************)

\* C31: every write of a task's state record is made by a worker while the
\* lock it was dispatched under is still held: the lock file holds the
\* record the dispatching acquire_lock wrote (not released, not overridden
\* by another acquirer) and that record is younger than LOCK_TIMEOUT.
C31_WritesUnderHeldLock ==
    hlast.ev = "write" => hlast.lock = "own" /\ hlast.age < LOCK_TIMEOUT

\* A worker writes when its own lock record, still in the file, has reached
\* the staleness threshold.
WriteUnderStaleLock ==
    hlast.ev = "write" /\ hlast.lock = "own" /\ hlast.age >= LOCK_TIMEOUT
\* A worker writes when another process has overridden the lock it runs under.
WriteAfterOverride == hlast.ev = "write" /\ hlast.lock = "other"
\* A worker writes when another process's release_lock has removed its lock.
WriteAfterRelease == hlast.ev = "write" /\ hlast.lock = "none"
\* A worker writes only between the start of its process and the release of
\* its dispatch, and its lock record is never older than the worker's
\* timeout and the time its start took.
WritesBeforeOwnRelease ==
    hlast.ev = "write" =>
        /\ hpc[hlast.p] = "running"
        /\ hlast.age < SubAgentTimeout + (hbegan[hlast.p] - hrec[hlast.p].timestamp)

\* C32: every record of a task's progress log carries as its index the
\* number of records the log held when it was written, so the indexes of
\* the log are 0, 1, 2, ... in the order of the calls, within one worker
\* run and across the runs on the task.
C32_IndexIsRecordCount ==
    \A i \in 1..Len(progress_file) : progress_file[i].index = i - 1

\* The records base_agent.write_progress appends (the Deployer's) carry the
\* record count, whatever the log held before.
SharedWriterCountsRecords ==
    \A i \in 1..Len(progress_file) :
        progress_file[i].by = "Deployer" => progress_file[i].index = i - 1
\* Within one Coder run the indexes go up in call order.
CoderRunIndexesIncrease ==
    [][(pworker = "Coder" /\ pworker' = "Coder" /\ progress_file' # progress_file)
          => progress_file'[Len(progress_file')].index = progress_index
             /\ progress_index' > progress_index]_vars
\* A second Coder run on the task starts again at index 0.
SecondCoderRunRestartsAtZero ==
    /\ Len(progress_file) = 3
    /\ progress_file[1].index = 0 /\ progress_file[2].index = 1
    /\ progress_file[3] = ProgressStep("Coder", 0)
\* The Deployer's record after a Coder's: the count of records.
DeployerAfterCoder ==
    /\ Len(progress_file) = 3
    /\ progress_file[2].by = "Coder" /\ progress_file[3] = ProgressStep("Deployer", 2)

\* Where a task stands in the listing.
PositionOf(t) == CHOOSE i \in 1..Len(Listing) : Listing[i] = t
\* The step taken last met a failure of one task: its lock is held, its
\* workspace or its lock could not be written, or its worker gave error
\* (returned by the worker, or by run_sub_agent when it could not start it).
LocalFailure ==
    \/ olast.ev = "scan" /\ olast.ret \in {"False", "exception"}
    \/ olast.ev = "run" /\ olast.ret = "error"

\* C33: a failure of one task during the scan of _check_work never keeps the
\* tasks listed after it from being looked at in the same tick: after it the
\* scan stands at the next listed task.
C33_LocalFailureContinuesScan ==
    LocalFailure => opc = "work" /\ scan = PositionOf(olast.task) + 1

\* A held lock and a worker's error leave the scan at the next listed task.
HeldLockOrWorkerErrorContinuesScan ==
    (LocalFailure /\ olast.ret # "exception") =>
        opc = "work" /\ scan = PositionOf(olast.task) + 1
\* The first listed task's workspace or lock could not be written: the tick
\* is over and the second task was not looked at.
RaisedBeforeLastTask ==
    /\ TickRaised /\ olast.task = Listing[1]
    /\ opc = "sleep" /\ ndisp.stage = 0
\* The first task's worker gave error and the scan is at the second task.
ErrorThenNextTask ==
    /\ olast.ev = "run" /\ olast.ret = "error" /\ olast.task = Listing[1]
    /\ opc = "work" /\ scan = 2

\* The attempts of the request so far, each with the connection it used.
IsAttemptEvent(e) == e.ev = "attempt"
AttemptEvents == SelectSeq(ctrace, IsAttemptEvent)

\* C34: before every retry, after a transient error and after a 5xx
\* response alike, the client closes and recreates its HTTP connection: no
\* attempt uses the connection of the attempt that failed before it.
C34_RetryOnFreshConnection ==
    \A i \in 2..Len(AttemptEvents) : AttemptEvents[i].n # AttemptEvents[i - 1].n

\* After a transient error the next attempt does use a new connection.
TransientRetryReconnects ==
    \A i \in 2..Len(AttemptEvents) :
        IsTransient(resps[i - 1]) => AttemptEvents[i].n = AttemptEvents[i - 1].n + 1
\* A 503 was retried on the connection that received it.
ServerErrorRetriedOnSameConnection ==
    /\ Len(AttemptEvents) = 2 /\ IsServerError(resps[1])
    /\ AttemptEvents[2].n = AttemptEvents[1].n
\* A connection reset was retried on a new connection.
ResetRetriedOnNewConnection ==
    /\ Len(AttemptEvents) = 2 /\ resps[1] = ExcResponse("ConnectionResetError")
    /\ AttemptEvents[2].n = AttemptEvents[1].n + 1

\* C35: in _check_work, after a stage worker's run the tick ends (no further
\* task is scanned, no Scout is started) exactly when the action it returned
\* is neither error nor no_result, timeout included; after error or
\* no_result the scan goes on with the next listed task.
C35_TickEndsUnlessErrorOrNoResult ==
    /\ [](olast.ev = "run" =>
            IF olast.ret \in {"error", "no_result"}
            THEN opc = "work" /\ scan = PositionOf(olast.task) + 1
            ELSE opc = "sleep" /\ scan = 0 /\ ndisp.scout = 0)
    /\ [][opc = "sleep" => (opc' \in {"idle", "stopped"} /\ ndisp'.scout = 0)]_vars
\* The first listed task's worker was killed on timeout and the tick is over.
C35_TimeoutEndsTick ==
    /\ olast.ev = "run" /\ olast.ret = "timeout" /\ olast.task = Listing[1]
    /\ opc = "sleep" /\ ndisp.stage = 1 /\ ndisp.scout = 0
\* A worker's coded ends the tick with the second task not scanned.
CodedEndsTick ==
    /\ olast.ev = "run" /\ olast.ret = "coded" /\ olast.task = Listing[1]
    /\ opc = "sleep"

\* The step that brought the scan to its present task passed over the task
\* before it: that task was skipped (done remotely, unknown stage, lock
\* held) or its worker gave error or no_result.
PassedOver(e) ==
    \/ e.ev = "scan" /\ e.ret \in {"skip", "False"}
    \/ e.ev = "run" /\ e.ret \in {"error", "no_result"}

\* C36: _check_work scans the tasks in the order of the listing and nothing
\* else: the scan starts at the first listed task, a dispatch is for the
\* task the scan stands at, the scan moves on by one and only past a task
\* that was skipped or whose worker gave error or no_result, and any other
\* action of a worker ends the tick.  So a later task is not dispatched in
\* a tick in which an earlier one returns another action.
C36_ScanInListingOrder ==
    /\ [](opc \in {"locked", "running"} => cur.task = Listing[scan])
    /\ [][(opc' = "work" /\ scan' # scan) =>
             \/ opc = "fetch" /\ scan' = 1
             \/ scan' = scan + 1 /\ PassedOver(olast') /\ olast'.task = Listing[scan]]_vars
    /\ []((olast.ev = "run" /\ ~PassedOver(olast)) => opc = "sleep" /\ scan = 0)
\* The first listed task went from coding to testing and back to coding in
\* two ticks that ended with it; nothing has run on the second task.
C36_FirstTaskCyclesSecondWaits ==
    /\ olast.ev = "run" /\ olast.task = Listing[1] /\ olast.ret = "tested"
    /\ olast.reading = "testing" /\ ostage[Listing[1]] = "coding"
    /\ opc = "sleep" /\ ndisp.stage = 1
    /\ ostage[Listing[2]] = "none" /\ locks[Listing[2]] = NoFile
\* The second task is dispatched after the first one's worker gave error.
SecondDispatchedAfterError ==
    /\ opc = "running" /\ cur.task = Listing[2] /\ ndisp.stage = 2

\* The Deployer's submission was accepted or the deliverable was already
\* submitted.
SubmissionAccepted == started.verdict \in {"ok", "already", "raise_409"}

\* C37: the Deployer sets the stage to delivered only after its submission
\* was accepted (ok:true) or was already submitted; when the submission
\* raises or is answered with ok:false, the stage stays deploying.
C37_DeliveredOnlyIfAccepted ==
    /\ [][(PersistedStage(stateFile)' = "delivered" /\ PersistedStage(stateFile) # "delivered")
             => started.agent = "Deployer" /\ SubmissionAccepted]_vars
    /\ []((started.agent = "Deployer" /\ started.verdict \in {"not_ok", "raise_other"}
           /\ Loads(stateFile)) => PersistedStage(stateFile) = "deploying")

\* A submission that raised leaves the stage at deploying and the run gives
\* error.
RaisedSubmissionKeepsDeploying ==
    (started.agent = "Deployer" /\ started.verdict = "raise_other") =>
        /\ worker = "none" /\ result = "error"
        /\ PersistedStage(stateFile) = "deploying"
\* Delivered after a submission the API answered with ok:false.
DeliveredAfterRefusedSubmission ==
    /\ worker = "none" /\ result = "deployed"
    /\ started.agent = "Deployer" /\ started.verdict = "not_ok"
    /\ PersistedStage(stateFile) = "delivered"
\* Delivered after an accepted submission.
DeliveredAfterAcceptedSubmission ==
    /\ worker = "none" /\ result = "deployed"
    /\ started.agent = "Deployer" /\ started.verdict = "ok"
    /\ PersistedStage(stateFile) = "delivered"

\* The Revision worker has just reported action revised.
ReportedRevised == olast.ev = "revision" /\ olast.ret = "revised"

\* C38: when the Revision worker reports action revised, _check_revisions
\* recognises it and returns True, and the tick ends before pipeline-advance
\* and scout are looked at.
C38_RevisedEndsTick ==
    ReportedRevised => opc = "sleep" /\ ndisp.stage = 0 /\ ndisp.scout = 0

\* What comes back from a Revision worker that reported revised is a list,
\* and _check_revisions goes on with the next revision task.
RevisedComesAsList ==
    ReportedRevised => olast.reading = "list" /\ opc = "revisions"
\* The last revision task's worker reported revised and the check goes on
\* towards _check_work.
RevisedNotRecognised ==
    /\ ReportedRevised /\ ndisp.rev = MaxInProgress
    /\ opc = "revisions" /\ scan > nrev
    /\ ENABLED RunRevision

\* The present Coder run found a readable record in stage coding with every
\* step of its plan recorded in completed_steps.
AllRecordedAtStart ==
    /\ started.agent = "Coder" /\ Loads(started.file)
    /\ started.file.status = "coding" /\ AllStepsRecorded(started.file)

\* C39: a Coder run on a task in stage coding whose plan steps are all
\* recorded in completed_steps executes no plan step; when it returns, plan,
\* completed_steps and files are as the run found them, the stage is
\* testing and iterations is one more than before.
C39_AllRecordedRunOnlyAdvances ==
    /\ (worker = "Coder" /\ AllRecordedAtStart) => ~ExecutingStep
    /\ (worker = "none" /\ result = "coded" /\ AllRecordedAtStart) =>
          /\ Loads(stateFile) /\ stateFile.status = "testing"
          /\ stateFile.iterations = started.file.iterations + 1
          /\ Plan(stateFile) = Plan(started.file)
          /\ stateFile.completed_steps = started.file.completed_steps
          /\ stateFile.files = started.file.files
\* After a test failure, with both steps of the plan recorded, the Coder has
\* returned coded.
C39_CodedAgainAfterFailure ==
    /\ worker = "none" /\ result = "coded" /\ AllRecordedAtStart
    /\ started.file.test_errors /\ started.file.plan = MaxSteps
    /\ started.file.iterations = 1
\* After a test failure a step can still be unrecorded (see C23), and the
\* next Coder run executes it.
UnrecordedStepExecutedAfterFailure ==
    /\ ExecutingStep /\ started.file.test_errors /\ started.file.iterations = 1

\* The present run's worker was started on a readable record whose stage is
\* not the worker's own.
WrongStageAtStart ==
    /\ started.agent \in Workers /\ Loads(started.file)
    /\ started.agent # AgentFor(started.file.status)

CoderOnDelivered ==
    /\ worker = "none" /\ result = "no_result"
    /\ started.agent = "Coder" /\ started.file.status = "delivered"
\* The Deployer was started on a task in stage coding and has returned.
DeployerOnCoding ==
    /\ worker = "none" /\ result = "no_result"
    /\ started.agent = "Deployer" /\ started.file.status = "coding"
\* Without a readable record the Tester and the Deployer give error, and the
\* Coder does on a record that does not parse; nothing is written then either.
NoRecordIsError ==
    (started.agent \in Workers /\ ~Loads(started.file) /\ worker = "none"
        /\ result \notin {"timeout", "-"}
        /\ (started.agent = "Coder" => started.file.kind = "corrupt")) =>
        result = "error" /\ stateFile = started.file /\ ~started.progress

=============================================================================
